---- MODULE Spec2Model ----
(***************************************************************************)
(* The quality-controlled generation loop of the article service           *)
(* (backend/api/endpoints/article.py, _generate_with_quality_loop) with    *)
(* the two model backends, the quality scorer and the translator it calls  *)
(* (Spec); the endpoint POST /generate-article with context building, the  *)
(* scraper and the PDF processor (EndpointSpec); and parse_seo_keywords on *)
(* its own (KeywordSpec).                                                  *)
(*                                                                         *)
(* Scores are carried in thousandths (0.85 is 850).  Values that come out  *)
(* of json.loads are tagged records [t, v]; a Python dict is a function    *)
(* from its keys.                                                          *)
(***************************************************************************)
EXTENDS Integers, Sequences, FiniteSets, TLC

VARIABLES pc, selected_model, include_thai_translation, context,
          iteration, feedback, article_result, content, layout_data,
          quality_feedback, result, error, log,
          request, providers, urls_to_process, kw,
          settings, parked

vars == <<pc, selected_model, include_thai_translation, context,
          iteration, feedback, article_result, content, layout_data,
          quality_feedback, result, error, log,
          request, providers, urls_to_process, kw,
          settings, parked>>

\* what a run of the loop on its own leaves alone
outside_loop == <<request, providers, urls_to_process, kw, settings, parked>>

-----------------------------------------------------------------------------
(* Settings *)

MAX_QUALITY_ITERATIONS == 3

QUALITY_THRESHOLD == 850

\* the settings object the loop reads
Settings ==
    [MAX_QUALITY_ITERATIONS |-> MAX_QUALITY_ITERATIONS,
     QUALITY_THRESHOLD |-> QUALITY_THRESHOLD]

(* Bounds of the model *)

NumDrafts == 2

-----------------------------------------------------------------------------
(* Python / JSON values *)

JNull == [t |-> "null"]

JStr(s) == [t |-> "str", v |-> s]

JNum(n) == [t |-> "num", v |-> n]

JList(l) == [t |-> "list", v |-> l]

JObj(d) == [t |-> "obj", v |-> d]

EmptyDict == [k \in {} |-> JNull]

\* bool(x)
Truthy(j) ==
    CASE j.t = "null" -> FALSE
      [] j.t = "str"  -> j.v # ""
      [] j.t = "num"  -> j.v # 0
      [] j.t = "list" -> Len(j.v) > 0
      [] j.t = "obj"  -> DOMAIN j.v # {}

\* d.get(k, default)
Get(d, k, default) == IF k \in DOMAIN d THEN d[k] ELSE default

\* a or b
PyOr(a, b) == IF Truthy(a) THEN a ELSE b

\* d[k] = val on a copy of d
Put(d, k, val) == [q \in DOMAIN d \cup {k} |-> IF q = k THEN val ELSE d[q]]

\* sep.join(parts)
RECURSIVE Join(_, _)
Join(parts, sep) ==
    IF Len(parts) = 0 THEN ""
    ELSE IF Len(parts) = 1 THEN parts[1]
    ELSE parts[1] \o sep \o Join(Tail(parts), sep)

\* s.strip() == "" for the strings of the model
WhitespaceOnly == {"", "   "}

IsBlank(s) == s \in WhitespaceOnly

\* a call that raised / a call that returned
Raise(msg) == [raised |-> TRUE, detail |-> msg]

Return(val) == [raised |-> FALSE, value |-> val]

\* a provider call: it raises, or replies with text that json.loads rejects
\* (the empty reply included), or with text that json.loads turns into v
Fail == [kind |-> "fail"]

Raw(text) == [kind |-> "raw", text |-> text]

Json(val) == [kind |-> "json", v |-> val]

\* in place of a reply when the provider was not called
NoCall == [kind |-> "none"]

-----------------------------------------------------------------------------
(* Model backends *)

\* the lines _build_user_prompt builds from the context (sources, PDF text
\* and custom instructions are absent from the contexts of the model)
ContextParts(ctx) ==
    <<"Generate a comprehensive article with the following specifications:\n">>
    \o (IF ctx.topic_category # "" THEN <<"Topic Category: " \o ctx.topic_category>> ELSE <<>>)
    \o (IF Len(ctx.seo_keywords) > 0
        THEN <<"SEO Keywords to incorporate: " \o Join(ctx.seo_keywords, ", ")>> ELSE <<>>)
    \o (IF ctx.topic_category = ""
        THEN <<"Generate an article about emerging business trends and future opportunities.">>
        ELSE <<>>)

FeedbackParts(fb) ==
    IF Truthy(fb) THEN <<"PREVIOUS FEEDBACK TO IMPROVE: " \o fb.v \o "\n">> ELSE <<>>

\* prompt_parts of LLMService._build_user_prompt
GptUserPrompt(ctx, fb) ==
    FeedbackParts(fb) \o ContextParts(ctx)
    \o <<"\nReturn your response as a JSON object with the specified format.">>

\* prompt_parts of LLMServiceGemini._build_user_prompt
GeminiUserPrompt(ctx, fb) ==
    FeedbackParts(fb)
    \o <<"CURRENT DATE: today",
         "Please ensure your article reflects current and up-to-date information as of this date.\n">>
    \o ContextParts(ctx)
    \o <<"\nProvide your response as either structured JSON or pure Markdown content.">>

BuildUserPrompt(model, ctx, fb) ==
    IF model = "gemini-pro" THEN GeminiUserPrompt(ctx, fb) ELSE GptUserPrompt(ctx, fb)

\* LLMService.generate_article on the provider's reply
GptGenerateArticle(reply) ==
    IF reply.kind = "fail" THEN Raise("Error generating article: provider")
    ELSE IF reply.kind = "raw"
    THEN IF reply.text = ""
         THEN Raise("Error generating article: OpenAI returned empty response")
         ELSE Raise("Invalid JSON response from AI")
    ELSE IF reply.v.t # "obj"
    THEN Raise("Error generating article: AttributeError")
    ELSE Return(reply.v.v)

\* variant: a reply that is not JSON is an error, as in LLMService.generate_article
GeminiGenerateArticleStrict(reply) ==
    IF reply.kind = "fail" THEN Raise("Error generating article with Gemini: provider")
    ELSE IF reply.kind = "raw"
    THEN IF reply.text = ""
         THEN Raise("Error generating article with Gemini: Gemini returned empty response")
         ELSE Raise("Error generating article with Gemini: Invalid JSON response from AI")
    ELSE IF reply.v.t # "obj"
    THEN Raise("Error generating article with Gemini: not an object")
    ELSE LET res == reply.v.v IN
         IF "content" \in DOMAIN res /\ Truthy(res["content"])
         THEN Return([markdown_content |-> res["content"],
                      layout |-> Get(res, "layout", JObj(EmptyDict)),
                      source_usage_details |-> Get(res, "source_usage_details", JList(<<>>))])
         ELSE Raise("Error generating article with Gemini: AI response missing content field")

\* LLMServiceGemini.generate_article on the provider's reply
GeminiGenerateArticle(reply) ==
    IF reply.kind = "fail" THEN Raise("Error generating article with Gemini: provider")
    ELSE IF reply.kind = "raw"
    THEN IF reply.text = ""
         THEN Raise("Error generating article with Gemini: Gemini returned empty response")
         ELSE Return([markdown_content |-> JStr(reply.text),
                      layout |-> JObj([sections |-> JList(<<>>), image_slots |-> JList(<<>>)]),
                      source_usage_details |-> JList(<<>>)])
    ELSE IF reply.v.t # "obj"
    THEN Raise("Error generating article with Gemini: not an object")
    ELSE LET res == reply.v.v IN
         IF "content" \in DOMAIN res /\ Truthy(res["content"])
         THEN Return([markdown_content |-> res["content"],
                      layout |-> Get(res, "layout", JObj(EmptyDict)),
                      source_usage_details |-> Get(res, "source_usage_details", JList(<<>>))])
         ELSE Raise("Error generating article with Gemini: AI response missing content field")

\* the backend the loop calls for a selected_model
BackendOf(model) == IF model = "gemini-pro" THEN "gemini" ELSE "gpt"

GenerateArticle(model, reply) ==
    IF model = "gemini-pro" THEN GeminiGenerateArticle(reply) ELSE GptGenerateArticle(reply)

\* the article text of a draft that generate_article returned
ArticleText(backend, ar) ==
    IF backend = "gemini" THEN ar["markdown_content"] ELSE Get(ar, "content", JStr(""))

\* "Extract content and layout" of the loop
ExtractContent(model, ar) ==
    IF model = "gemini-pro"
    THEN PyOr(Get(ar, "html_content", JStr("")), Get(ar, "content", JStr("")))
    ELSE PyOr(Get(ar, "markdown_content", JStr("")), Get(ar, "content", JStr("")))

ExtractLayout(ar) == Get(ar, "layout", JObj(EmptyDict))

-----------------------------------------------------------------------------
(* Quality scorer *)

IsStrList(j) == j.t = "list" /\ \A i \in 1..Len(j.v) : j.v[i].t = "str"

\* variant: the score is clamped into [0, 1]
EvaluateArticleQualityClamped(reply) ==
    IF reply.kind = "fail" THEN Raise("Error evaluating article quality: provider")
    ELSE IF reply.kind = "raw" THEN Raise("Error evaluating article quality: json")
    ELSE IF reply.v.t # "obj" THEN Raise("Error evaluating article quality: AttributeError")
    ELSE LET res == reply.v.v
             score == Get(res, "score", JNum(0))
             fb == Get(res, "feedback", JStr(""))
             suggestions == Get(res, "suggestions", JList(<<>>))
         IN IF score.t = "num" /\ fb.t = "str" /\ IsStrList(suggestions)
            THEN Return([score |-> IF score.v > 1000 THEN 1000
                                   ELSE IF score.v < 0 THEN 0 ELSE score.v,
                         feedback |-> fb.v,
                         suggestions |-> [i \in 1..Len(suggestions.v) |-> suggestions.v[i].v]])
            ELSE Raise("Error evaluating article quality: ValidationError")

\* QualityCheckerService.evaluate_article_quality on the provider's reply;
\* QualityFeedback validates score: float, feedback: str, suggestions: List[str]
EvaluateArticleQuality(reply) ==
    IF reply.kind = "fail" THEN Raise("Error evaluating article quality: provider")
    ELSE IF reply.kind = "raw" THEN Raise("Error evaluating article quality: json")
    ELSE IF reply.v.t # "obj" THEN Raise("Error evaluating article quality: AttributeError")
    ELSE LET res == reply.v.v
             score == Get(res, "score", JNum(0))
             fb == Get(res, "feedback", JStr(""))
             suggestions == Get(res, "suggestions", JList(<<>>))
         IN IF score.t = "num" /\ fb.t = "str" /\ IsStrList(suggestions)
            THEN Return([score |-> score.v, feedback |-> fb.v,
                         suggestions |-> [i \in 1..Len(suggestions.v) |-> suggestions.v[i].v]])
            ELSE Raise("Error evaluating article quality: ValidationError")

\* f"{score:.2f}" of a score in thousandths (none of the model's scores is a tie)
Digits2(n) == IF n < 10 THEN "0" \o ToString(n) ELSE ToString(n)

FormatScore2(s) ==
    LET mag == IF s < 0 THEN 0 - s ELSE s
        hundredths == (mag + 5) \div 10
    IN (IF s < 0 THEN "-" ELSE "")
       \o ToString(hundredths \div 100) \o "." \o Digits2(hundredths % 100)

\* the feedback string of the loop
FeedbackString(qf) ==
    "Quality score: " \o FormatScore2(qf.score) \o ". " \o qf.feedback
    \o " Suggestions: " \o Join(qf.suggestions, "; ")

-----------------------------------------------------------------------------
(* Layout parsing *)

ValidStr(j) == j.t = "str"

ValidOptStr(j) == j.t \in {"str", "null"}

\* ImageSlot(...) of one dict of image_slots, n slots built before it
MakeSlot(d, n) ==
    [id |-> Get(d, "id", JStr("img_" \o ToString(n))),
     description |-> Get(d, "description", JStr("Image placeholder")),
     position |-> Get(d, "position", JStr("article")),
     suggested_type |-> Get(d, "suggested_type", JStr("photo")),
     placement_rationale |-> Get(d, "placement_rationale", JNull),
     content_guidance |-> Get(d, "content_guidance", JNull),
     dimensions |-> Get(d, "dimensions", JNull),
     aspect_ratio |-> Get(d, "aspect_ratio", JNull),
     alternatives |-> Get(d, "alternatives", JNull)]

ValidSlot(s) ==
    /\ ValidStr(s.id) /\ ValidStr(s.description)
    /\ ValidStr(s.position) /\ ValidStr(s.suggested_type)
    /\ ValidOptStr(s.placement_rationale) /\ ValidOptStr(s.content_guidance)
    /\ ValidOptStr(s.dimensions) /\ ValidOptStr(s.aspect_ratio)
    /\ ValidOptStr(s.alternatives)

\* the loop over image_slots_data: entries that are not dicts are skipped
RECURSIVE BuildSlots(_, _)
BuildSlots(entries, image_slots) ==
    IF Len(entries) = 0 THEN image_slots
    ELSE IF Head(entries).t = "obj"
    THEN BuildSlots(Tail(entries),
                    Append(image_slots, MakeSlot(Head(entries).v, Len(image_slots))))
    ELSE BuildSlots(Tail(entries), image_slots)

\* _parse_layout: AttributeError when layout_data is no dict, TypeError when
\* image_slots cannot be iterated, ValidationError from ImageSlot / ArticleLayout
ParseLayout(ld) ==
    IF ld.t # "obj" THEN Raise("AttributeError")
    ELSE LET sections == Get(ld.v, "sections", JList(<<>>))
             image_slots_data == Get(ld.v, "image_slots", JList(<<>>))
         IN IF image_slots_data.t \in {"null", "num"} THEN Raise("TypeError")
            ELSE LET entries == IF image_slots_data.t = "list" THEN image_slots_data.v ELSE <<>>
                     image_slots == BuildSlots(entries, <<>>)
                 IN IF /\ \A i \in 1..Len(image_slots) : ValidSlot(image_slots[i])
                       /\ IsStrList(sections)
                    THEN Return([sections |-> sections.v, image_slots |-> image_slots])
                    ELSE Raise("ValidationError")

-----------------------------------------------------------------------------
(* Translator *)

TranslationFailure(ld, sud, msg) ==
    [markdown_content |-> JStr(""),
     layout |-> PyOr(ld, JObj(EmptyDict)),
     source_usage_details |-> PyOr(sud, JList(<<>>)),
     translation_success |-> FALSE,
     error |-> msg]

\* whether translate_to_thai calls the provider at all
TranslatorCallsProvider(mc) == mc.t = "str" /\ Truthy(mc) /\ ~IsBlank(mc.v)

\* variant: a reply that is not JSON is taken as the translation itself
TranslateToThaiLenient(mc, ld, sud, reply) ==
    IF ~TranslatorCallsProvider(mc) THEN TranslationFailure(ld, sud, "Empty content")
    ELSE IF reply.kind = "fail" THEN TranslationFailure(ld, sud, "Translation failed: provider")
    ELSE IF reply.kind = "raw"
    THEN IF reply.text = ""
         THEN TranslationFailure(ld, sud, "Translation failed: OpenAI returned empty translation response")
         ELSE [markdown_content |-> JStr(reply.text),
               layout |-> PyOr(ld, JObj(EmptyDict)),
               source_usage_details |-> PyOr(sud, JList(<<>>)),
               translation_success |-> TRUE,
               translation_notes |-> JList(<<>>)]
    ELSE IF reply.v.t # "obj" THEN TranslationFailure(ld, sud, "Translation failed: AttributeError")
    ELSE LET res == reply.v.v
             thai_content == Get(res, "thai_content", JStr(""))
         IN IF thai_content.t \in {"null", "num"}
            THEN TranslationFailure(ld, sud, "Translation failed: TypeError")
            ELSE [markdown_content |-> thai_content,
                  layout |-> Get(res, "layout", PyOr(ld, JObj(EmptyDict))),
                  source_usage_details |-> Get(res, "source_usage_details", PyOr(sud, JList(<<>>))),
                  translation_success |-> TRUE,
                  translation_notes |-> Get(res, "translation_notes", JList(<<>>))]

\* TranslationService.translate_to_thai on the provider's reply
TranslateToThai(mc, ld, sud, reply) ==
    IF ~TranslatorCallsProvider(mc) THEN TranslationFailure(ld, sud, "Empty content")
    ELSE IF reply.kind = "fail" THEN TranslationFailure(ld, sud, "Translation failed: provider")
    ELSE IF reply.kind = "raw"
    THEN IF reply.text = ""
         THEN TranslationFailure(ld, sud, "Translation failed: OpenAI returned empty translation response")
         ELSE TranslationFailure(ld, sud, "Invalid JSON response")
    ELSE IF reply.v.t # "obj" THEN TranslationFailure(ld, sud, "Translation failed: AttributeError")
    ELSE LET res == reply.v.v
             thai_content == Get(res, "thai_content", JStr(""))
         IN IF thai_content.t \in {"null", "num"}
            THEN TranslationFailure(ld, sud, "Translation failed: TypeError")
            ELSE [markdown_content |-> thai_content,
                  layout |-> Get(res, "layout", PyOr(ld, JObj(EmptyDict))),
                  source_usage_details |-> Get(res, "source_usage_details", PyOr(sud, JList(<<>>))),
                  translation_success |-> TRUE,
                  translation_notes |-> Get(res, "translation_notes", JList(<<>>))]

\* the call of translate_to_thai as the loop sees it: markdown_content.strip()
\* sits before the try of translate_to_thai, so content that is truthy and not
\* a string raises out of it
TranslateCall(mc, ld, sud, reply) ==
    IF mc.t # "str" THEN Raise("AttributeError: no attribute 'strip'")
    ELSE Return(TranslateToThai(mc, ld, sud, reply))

\* variant: the translation_success flag is not looked at
WithThaiUnchecked(res, thai_result) ==
    LET r1 == Put(res, "thai_content", thai_result.markdown_content)
        pl == ParseLayout(thai_result.layout)
    IN IF pl.raised THEN r1 ELSE Put(r1, "thai_layout", pl.value)

\* the "if include_thai_translation" block of the loop, applied to the result
WithThai(res, thai_result) ==
    IF thai_result.translation_success
    THEN LET r1 == Put(res, "thai_content", thai_result.markdown_content)
             pl == ParseLayout(thai_result.layout)
         IN IF pl.raised THEN r1 ELSE Put(r1, "thai_layout", pl.value)
    ELSE res

-----------------------------------------------------------------------------
(* Inputs of a run: the request's parameters and the providers' replies *)

Models == {"gpt-finetune", "gemini-pro"}

Contexts == {[topic_category |-> "Technology", seo_keywords |-> <<"ai", "cloud">>]}

DraftText(i) == "# Draft " \o ToString(i)

GoodLayout ==
    JObj([sections |-> JList(<<JStr("Introduction"), JStr("Outlook")>>),
          image_slots |-> JList(<<JObj([id |-> JStr("hero"), description |-> JStr("Skyline")]),
                                  JObj([description |-> JStr("Chart")]),
                                  JStr("not a slot")>>)])

\* a slot without an id in front of a slot that names the id the first one gets
ClashLayout ==
    JObj([sections |-> JList(<<JStr("Introduction")>>),
          image_slots |-> JList(<<JObj([description |-> JStr("Chart")]),
                                  JObj([id |-> JStr("img_0"), description |-> JStr("Map")])>>)])

SourceUsage == JList(<<JObj([source_title |-> JStr("Report"), content_used |-> JStr("Figures")])>>)

GenerationReplies ==
    {Fail, Raw(""), Raw("Plain markdown reply"), Json(JList(<<>>)),
     Json(JObj([content |-> JStr(""), layout |-> GoodLayout])),
     Json(JObj([html_content |-> JStr("<h1>Draft</h1>")])),
     Json(JObj([content |-> JStr("   ")])),
     Json(JObj([content |-> JStr(DraftText(1)), layout |-> JNull])),
     Json(JObj([content |-> JList(<<JStr("Paragraph")>>), layout |-> GoodLayout])),
     Json(JObj([content |-> JStr(DraftText(1)), layout |-> ClashLayout,
                source_usage_details |-> JNull]))}
    \cup {Json(JObj([content |-> JStr(DraftText(i)), layout |-> GoodLayout,
                     source_usage_details |-> SourceUsage])) : i \in 1..NumDrafts}

ScoringReplies ==
    {Fail, Raw("not json"),
     Json(JObj([score |-> JNull, feedback |-> JStr("No verdict.")])),
     Json(JObj([feedback |-> JStr("No score given.")])),
     Json(JObj([score |-> JNum(500), feedback |-> JStr("Needs more depth."),
                suggestions |-> JList(<<JStr("Add data"), JStr("Shorten the intro")>>)])),
     Json(JObj([score |-> JNum(849), feedback |-> JStr("Almost there."),
                suggestions |-> JList(<<>>)])),
     Json(JObj([score |-> JNum(850), feedback |-> JStr("Good."),
                suggestions |-> JList(<<JStr("Polish")>>)])),
     Json(JObj([score |-> JNum(1500), feedback |-> JStr("Off the scale.")])),
     Json(JObj([score |-> JNum(0 - 200), feedback |-> JStr("Below zero.")]))}

ThaiLayout == JObj([sections |-> JList(<<JStr("Thai introduction")>>)])

TranslationReplies ==
    {Fail, Raw("not json"),
     Json(JObj([thai_content |-> JStr("Thai draft"), layout |-> ThaiLayout])),
     Json(JObj([thai_content |-> JStr("Thai draft"), layout |-> JNull])),
     Json(JObj([thai_content |-> JStr("Thai draft")]))}

-----------------------------------------------------------------------------
(* Reading the log of a run *)

LogIdx == 1..Len(log)

\* the positions of the events of one kind, of one kind and iteration
Events(kind) == {i \in LogIdx : log[i].ev = kind}

EventsAt(kind, n) == {i \in LogIdx : log[i].ev = kind /\ log[i].iteration = n}

EventAt(kind, n) == log[CHOOSE i \in EventsAt(kind, n) : TRUE]

\* iteration n generated a draft with content and the scorer returned a verdict
ScoredAt(n) ==
    /\ EventsAt("evaluated", n) # {}
    /\ ~EventAt("evaluated", n).out.raised

ScoreAt(n) == EventAt("evaluated", n).out.value.score

\* what iteration n handed to the scorer, the layout and source usage of its draft
ContentAt(n) == EventAt("evaluate", n).article_content

LayoutAt(n) == Get(EventAt("generated", n).out.value, "layout", JObj(EmptyDict))

SourceUsageAt(n) ==
    Get(EventAt("generated", n).out.value, "source_usage_details", JList(<<>>))

-----------------------------------------------------------------------------
(* _generate_with_quality_loop *)

Unbound == [t |-> "unbound"]

HTTPException(status, detail) ==
    [type |-> "HTTPException", status_code |-> status, detail |-> detail]

Unhandled(exc, where) == [type |-> exc, status_code |-> 0, detail |-> where]

NoError == [type |-> "none", status_code |-> 0, detail |-> ""]

\* the call of generate_article made by iteration it with feedback fb
GenerateCall(it, fb) ==
    [ev |-> "generate", iteration |-> it, backend |-> BackendOf(selected_model),
     feedback |-> fb, prompt_parts |-> BuildUserPrompt(selected_model, context, fb)]

\* quality_context of the loop
QualityContext(ctx) ==
    [topic_category |-> ctx.topic_category,
     seo_keywords |-> IF Len(ctx.seo_keywords) > 0
                      THEN JStr(Join(ctx.seo_keywords, ", ")) ELSE JNull]

\* variant: one iteration too many
MoreIterationsOffByOne(it) == it <= settings.MAX_QUALITY_ITERATIONS

\* the condition of the while, and of "prepare feedback for next iteration"
MoreIterations(it) == it < settings.MAX_QUALITY_ITERATIONS

\* variant: a score equal to the threshold is not accepted
MeetsThresholdStrict(score) == score > settings.QUALITY_THRESHOLD

\* "Check if quality meets threshold"
MeetsThreshold(score) == score >= settings.QUALITY_THRESHOLD

\* variant: the feedback of older iterations is kept in front of the new one
NextFeedbackAccumulated(fb, qf) ==
    IF Truthy(fb) THEN JStr(fb.v \o " " \o FeedbackString(qf)) ELSE JStr(FeedbackString(qf))

\* "prepare feedback for next iteration"
NextFeedback(fb, qf) == JStr(FeedbackString(qf))

\* the result / final_result dict before translation
BaseResult(c, pl, qf, it, ar) ==
    [content |-> c, layout |-> pl, quality_score |-> qf.score, iterations |-> it,
     source_usage_details |-> Get(ar, "source_usage_details", JList(<<>>))]

Init ==
    /\ pc = "start"
    /\ selected_model \in Models
    /\ include_thai_translation \in BOOLEAN
    /\ context \in Contexts
    /\ iteration = 0
    /\ feedback = JNull
    /\ article_result = Unbound
    /\ content = Unbound
    /\ layout_data = Unbound
    /\ quality_feedback = Unbound
    /\ result = Unbound
    /\ error = NoError
    /\ log = <<>>
    /\ request = Unbound
    /\ providers = Unbound
    /\ urls_to_process = <<>>
    /\ kw = Unbound
    /\ settings = Settings
    /\ parked = Unbound

\* iteration = 0, feedback = None, the first test of the while and the first call
Start ==
    /\ pc = "start"
    /\ UNCHANGED outside_loop
    /\ MoreIterations(iteration)
    /\ iteration' = 1
    /\ feedback' = JNull
    /\ pc' = "generating"
    /\ log' = Append(log, GenerateCall(1, JNull))
    /\ UNCHANGED <<selected_model, include_thai_translation, context, article_result,
                   content, layout_data, quality_feedback, result, error>>

\* variant: a generation call that raised is repeated
GenerationRaisesRetried ==
    /\ pc = "generating"
    /\ UNCHANGED outside_loop
    /\ \E reply \in GenerationReplies :
         LET out == GenerateArticle(selected_model, reply) IN
         /\ out.raised
         /\ log' = log \o <<[ev |-> "generated", iteration |-> iteration, reply |-> reply, out |-> out],
                            GenerateCall(iteration, feedback)>>
    /\ UNCHANGED <<pc, selected_model, include_thai_translation, context, iteration, feedback,
                   article_result, content, layout_data, quality_feedback, result, error>>

\* generate_article raises: HTTPException 500
GenerationRaises ==
    /\ pc = "generating"
    /\ UNCHANGED outside_loop
    /\ \E reply \in GenerationReplies :
         LET out == GenerateArticle(selected_model, reply) IN
         /\ out.raised
         /\ log' = Append(log, [ev |-> "generated", iteration |-> iteration, reply |-> reply, out |-> out])
         /\ error' = HTTPException(500, "Error in article generation: " \o out.detail)
    /\ pc' = "error"
    /\ UNCHANGED <<selected_model, include_thai_translation, context, iteration, feedback,
                   article_result, content, layout_data, quality_feedback, result>>

\* variant: empty content leads to another attempt
GenerationEmptyRetries ==
    /\ pc = "generating"
    /\ UNCHANGED outside_loop
    /\ MoreIterations(iteration)
    /\ \E reply \in GenerationReplies :
         LET out == GenerateArticle(selected_model, reply) IN
         /\ ~out.raised
         /\ ~Truthy(ExtractContent(selected_model, out.value))
         /\ article_result' = out.value
         /\ content' = ExtractContent(selected_model, out.value)
         /\ layout_data' = ExtractLayout(out.value)
         /\ log' = log \o <<[ev |-> "generated", iteration |-> iteration, reply |-> reply, out |-> out],
                            GenerateCall(iteration + 1, feedback)>>
    /\ iteration' = iteration + 1
    /\ UNCHANGED <<pc, selected_model, include_thai_translation, context, feedback,
                   quality_feedback, result, error>>

\* generate_article returns and the extracted content is empty: HTTPException 500
GenerationEmpty ==
    /\ pc = "generating"
    /\ UNCHANGED outside_loop
    /\ \E reply \in GenerationReplies :
         LET out == GenerateArticle(selected_model, reply) IN
         /\ ~out.raised
         /\ ~Truthy(ExtractContent(selected_model, out.value))
         /\ article_result' = out.value
         /\ content' = ExtractContent(selected_model, out.value)
         /\ layout_data' = ExtractLayout(out.value)
         /\ log' = Append(log, [ev |-> "generated", iteration |-> iteration, reply |-> reply, out |-> out])
    /\ error' = HTTPException(500, "Generated article has no content")
    /\ pc' = "error"
    /\ UNCHANGED <<selected_model, include_thai_translation, context, iteration, feedback,
                   quality_feedback, result>>

\* variant: the next attempt is requested while the scorer is still running
GenerationScoredSpeculative ==
    /\ pc = "generating"
    /\ UNCHANGED outside_loop
    /\ \E reply \in GenerationReplies :
         LET out == GenerateArticle(selected_model, reply) IN
         /\ ~out.raised
         /\ Truthy(ExtractContent(selected_model, out.value))
         /\ article_result' = out.value
         /\ content' = ExtractContent(selected_model, out.value)
         /\ layout_data' = ExtractLayout(out.value)
         /\ log' = log \o <<[ev |-> "generated", iteration |-> iteration, reply |-> reply, out |-> out],
                            [ev |-> "evaluate", iteration |-> iteration,
                             article_content |-> ExtractContent(selected_model, out.value),
                             quality_context |-> QualityContext(context)],
                            GenerateCall(iteration + 1, feedback)>>
    /\ pc' = "scoring"
    /\ UNCHANGED <<selected_model, include_thai_translation, context, iteration, feedback,
                   quality_feedback, result, error>>

\* generate_article returns a draft with content: the scorer is called with it
GenerationScored ==
    /\ pc = "generating"
    /\ UNCHANGED outside_loop
    /\ \E reply \in GenerationReplies :
         LET out == GenerateArticle(selected_model, reply) IN
         /\ ~out.raised
         /\ Truthy(ExtractContent(selected_model, out.value))
         /\ article_result' = out.value
         /\ content' = ExtractContent(selected_model, out.value)
         /\ layout_data' = ExtractLayout(out.value)
         /\ log' = log \o <<[ev |-> "generated", iteration |-> iteration, reply |-> reply, out |-> out],
                            [ev |-> "evaluate", iteration |-> iteration,
                             article_content |-> ExtractContent(selected_model, out.value),
                             quality_context |-> QualityContext(context)]>>
    /\ pc' = "scoring"
    /\ UNCHANGED <<selected_model, include_thai_translation, context, iteration, feedback,
                   quality_feedback, result, error>>

\* variant: a scoring call that raised is repeated
EvaluationRaisesRetried ==
    /\ pc = "scoring"
    /\ UNCHANGED outside_loop
    /\ \E reply \in ScoringReplies :
         LET out == EvaluateArticleQuality(reply) IN
         /\ out.raised
         /\ log' = log \o <<[ev |-> "evaluated", iteration |-> iteration, reply |-> reply, out |-> out],
                            [ev |-> "evaluate", iteration |-> iteration,
                             article_content |-> content,
                             quality_context |-> QualityContext(context)]>>
    /\ UNCHANGED <<pc, selected_model, include_thai_translation, context, iteration, feedback,
                   article_result, content, layout_data, quality_feedback, result, error>>

\* evaluate_article_quality raises: HTTPException 500
EvaluationRaises ==
    /\ pc = "scoring"
    /\ UNCHANGED outside_loop
    /\ \E reply \in ScoringReplies :
         LET out == EvaluateArticleQuality(reply) IN
         /\ out.raised
         /\ log' = Append(log, [ev |-> "evaluated", iteration |-> iteration, reply |-> reply, out |-> out])
         /\ error' = HTTPException(500, "Error in quality evaluation: " \o out.detail)
    /\ pc' = "error"
    /\ UNCHANGED <<selected_model, include_thai_translation, context, iteration, feedback,
                   article_result, content, layout_data, quality_feedback, result>>

\* the result is built from the draft in hand; then the translator is called
\* when requested, else the result is returned
Finish(qf, evaluated) ==
    LET pl == ParseLayout(layout_data) IN
    IF pl.raised
    THEN /\ pc' = "error"
         /\ error' = Unhandled(pl.detail, "_parse_layout")
         /\ result' = result
         /\ log' = Append(log, evaluated)
    ELSE /\ result' = BaseResult(content, pl.value, qf, iteration, article_result)
         /\ error' = error
         /\ IF include_thai_translation
            THEN /\ pc' = "translating"
                 /\ log' = log \o <<evaluated,
                                    [ev |-> "translate", iteration |-> iteration,
                                     markdown_content |-> content,
                                     layout_data |-> layout_data]>>
            ELSE /\ pc' = "returned"
                 /\ log' = Append(log, evaluated)

\* the score meets the threshold
Accept ==
    /\ pc = "scoring"
    /\ UNCHANGED outside_loop
    /\ \E reply \in ScoringReplies :
         LET out == EvaluateArticleQuality(reply) IN
         /\ ~out.raised
         /\ MeetsThreshold(out.value.score)
         /\ quality_feedback' = out.value
         /\ Finish(out.value, [ev |-> "evaluated", iteration |-> iteration, reply |-> reply, out |-> out])
    /\ UNCHANGED <<selected_model, include_thai_translation, context, iteration, feedback,
                   article_result, content, layout_data>>

\* variant: a low score makes the next attempt go to the other backend
RetrySwitchesBackend ==
    /\ pc = "scoring"
    /\ UNCHANGED outside_loop
    /\ MoreIterations(iteration)
    /\ \E reply \in ScoringReplies, other \in Models \ {selected_model} :
         LET out == EvaluateArticleQuality(reply) IN
         /\ ~out.raised
         /\ ~MeetsThreshold(out.value.score)
         /\ quality_feedback' = out.value
         /\ feedback' = NextFeedback(feedback, out.value)
         /\ selected_model' = other
         /\ log' = log \o <<[ev |-> "evaluated", iteration |-> iteration, reply |-> reply, out |-> out],
                            [ev |-> "generate", iteration |-> iteration + 1,
                             backend |-> BackendOf(other),
                             feedback |-> NextFeedback(feedback, out.value),
                             prompt_parts |-> BuildUserPrompt(other, context, NextFeedback(feedback, out.value))]>>
    /\ iteration' = iteration + 1
    /\ pc' = "generating"
    /\ UNCHANGED <<include_thai_translation, context, article_result,
                   content, layout_data, result, error>>

\* the score is below the threshold and an iteration is left: the feedback is
\* built and the next iteration calls generate_article with it
Retry ==
    /\ pc = "scoring"
    /\ UNCHANGED outside_loop
    /\ MoreIterations(iteration)
    /\ \E reply \in ScoringReplies :
         LET out == EvaluateArticleQuality(reply) IN
         /\ ~out.raised
         /\ ~MeetsThreshold(out.value.score)
         /\ quality_feedback' = out.value
         /\ feedback' = NextFeedback(feedback, out.value)
         /\ log' = log \o <<[ev |-> "evaluated", iteration |-> iteration, reply |-> reply, out |-> out],
                            GenerateCall(iteration + 1, NextFeedback(feedback, out.value))>>
    /\ iteration' = iteration + 1
    /\ pc' = "generating"
    /\ UNCHANGED <<selected_model, include_thai_translation, context, article_result,
                   content, layout_data, result, error>>

\* variant: exhaustion returns the best-scoring attempt
ExhaustBestOf ==
    /\ pc = "scoring"
    /\ UNCHANGED outside_loop
    /\ ~MoreIterations(iteration)
    /\ \E reply \in ScoringReplies :
         LET out == EvaluateArticleQuality(reply)
             Sc(n) == IF n = iteration THEN out.value.score ELSE ScoreAt(n)
             best == CHOOSE n \in 1..iteration : \A m \in 1..iteration : Sc(n) >= Sc(m)
             pl == ParseLayout(LayoutAt(best))
         IN
         /\ ~out.raised
         /\ ~MeetsThreshold(out.value.score)
         /\ quality_feedback' = out.value
         /\ log' = Append(log, [ev |-> "evaluated", iteration |-> iteration, reply |-> reply, out |-> out])
         /\ IF pl.raised
            THEN pc' = "error" /\ error' = Unhandled(pl.detail, "_parse_layout") /\ result' = result
            ELSE /\ pc' = "returned"
                 /\ error' = error
                 /\ result' = [content |-> ContentAt(best), layout |-> pl.value,
                               quality_score |-> Sc(best), iterations |-> iteration,
                               source_usage_details |-> SourceUsageAt(best)]
    /\ UNCHANGED <<selected_model, include_thai_translation, context, iteration, feedback,
                   article_result, content, layout_data>>

\* variant: a best-effort result is returned without calling the translator
ExhaustUntranslated ==
    /\ pc = "scoring"
    /\ UNCHANGED outside_loop
    /\ ~MoreIterations(iteration)
    /\ \E reply \in ScoringReplies :
         LET out == EvaluateArticleQuality(reply)
             pl == ParseLayout(layout_data)
         IN
         /\ ~out.raised
         /\ ~MeetsThreshold(out.value.score)
         /\ quality_feedback' = out.value
         /\ log' = Append(log, [ev |-> "evaluated", iteration |-> iteration, reply |-> reply, out |-> out])
         /\ IF pl.raised
            THEN pc' = "error" /\ error' = Unhandled(pl.detail, "_parse_layout") /\ result' = result
            ELSE /\ pc' = "returned"
                 /\ error' = error
                 /\ result' = BaseResult(content, pl.value, out.value, iteration, article_result)
    /\ UNCHANGED <<selected_model, include_thai_translation, context, iteration, feedback,
                   article_result, content, layout_data>>

\* variant: after the last low score the loop starts over instead of returning
ExhaustStartsOver ==
    /\ pc = "scoring"
    /\ UNCHANGED outside_loop
    /\ ~MoreIterations(iteration)
    /\ \E reply \in ScoringReplies :
         LET out == EvaluateArticleQuality(reply) IN
         /\ ~out.raised
         /\ ~MeetsThreshold(out.value.score)
    /\ iteration' = 1
    /\ feedback' = JNull
    /\ pc' = "generating"
    /\ log' = <<GenerateCall(1, JNull)>>
    /\ article_result' = Unbound
    /\ content' = Unbound
    /\ layout_data' = Unbound
    /\ quality_feedback' = Unbound
    /\ UNCHANGED <<selected_model, include_thai_translation, context, result, error>>

\* the score is below the threshold and no iteration is left
Exhaust ==
    /\ pc = "scoring"
    /\ UNCHANGED outside_loop
    /\ ~MoreIterations(iteration)
    /\ \E reply \in ScoringReplies :
         LET out == EvaluateArticleQuality(reply) IN
         /\ ~out.raised
         /\ ~MeetsThreshold(out.value.score)
         /\ quality_feedback' = out.value
         /\ Finish(out.value, [ev |-> "evaluated", iteration |-> iteration, reply |-> reply, out |-> out])
    /\ UNCHANGED <<selected_model, include_thai_translation, context, iteration, feedback,
                   article_result, content, layout_data>>

\* translate_to_thai returns or raises (the except of the loop swallows it); the
\* result is returned with or without Thai content
Translated ==
    /\ pc = "translating"
    /\ UNCHANGED outside_loop
    /\ \E reply \in TranslationReplies :
         LET out == TranslateCall(content, layout_data,
                                  Get(article_result, "source_usage_details", JList(<<>>)),
                                  reply) IN
         /\ result' = IF out.raised THEN result ELSE WithThai(result, out.value)
         /\ log' = Append(log, [ev |-> "translated", iteration |-> iteration,
                                reply |-> IF TranslatorCallsProvider(content) THEN reply ELSE NoCall,
                                out |-> out])
    /\ pc' = "returned"
    /\ UNCHANGED <<selected_model, include_thai_translation, context, iteration, feedback,
                   article_result, content, layout_data, quality_feedback, error>>

Next ==
    \/ Start
    \/ GenerationRaises
    \/ GenerationEmpty
    \/ GenerationScored
    \/ EvaluationRaises
    \/ Accept
    \/ Retry
    \/ Exhaust
    \/ Translated

Spec == Init /\ [][Next]_vars

-----------------------------------------------------------------------------
(* C1: a run makes at most MAX_QUALITY_ITERATIONS generation calls and at   *)
(* most MAX_QUALITY_ITERATIONS scoring calls, and the iterations field of a *)
(* returned result is never greater than MAX_QUALITY_ITERATIONS.            *)
C1_BoundedIteration ==
    /\ Cardinality(Events("generate")) <= MAX_QUALITY_ITERATIONS
    /\ Cardinality(Events("evaluate")) <= MAX_QUALITY_ITERATIONS
    /\ (pc = "returned" => result["iterations"] <= MAX_QUALITY_ITERATIONS)

C1_Witness ==
    /\ pc = "returned"
    /\ result["iterations"] = MAX_QUALITY_ITERATIONS
    /\ Cardinality(Events("generate")) = MAX_QUALITY_ITERATIONS
    /\ Cardinality(Events("evaluate")) = MAX_QUALITY_ITERATIONS

(* C2 as stated: when the scoring call of iteration N returns a score that *)
(* meets the threshold (equality included), the loop stops at iteration N:  *)
(* no generation or scoring call follows, and the result carries iteration  *)
(* N's content, layout and score with iterations = N.                       *)
AcceptedAt(i) ==
    /\ log[i].ev = "evaluated"
    /\ ~log[i].out.raised
    /\ log[i].out.value.score >= QUALITY_THRESHOLD

StoppedAt(i) ==
    /\ \A j \in LogIdx : j > i => log[j].ev \notin {"generate", "evaluate"}
    /\ iteration = log[i].iteration

ResultOfAccepted(i) ==
    LET n == log[i].iteration IN
    /\ result["iterations"] = n
    /\ result["content"] = ContentAt(n)
    /\ result["layout"] = ParseLayout(LayoutAt(n)).value
    /\ result["quality_score"] = log[i].out.value.score

AllAttemptsLow ==
    \A n \in 1..MAX_QUALITY_ITERATIONS :
        ScoredAt(n) /\ ScoreAt(n) < QUALITY_THRESHOLD

LastAttemptReturned ==
    /\ result["iterations"] = MAX_QUALITY_ITERATIONS
    /\ result["content"] = ContentAt(MAX_QUALITY_ITERATIONS)
    /\ result["layout"] = ParseLayout(LayoutAt(MAX_QUALITY_ITERATIONS)).value
    /\ result["source_usage_details"] = SourceUsageAt(MAX_QUALITY_ITERATIONS)
    /\ result["quality_score"] = ScoreAt(MAX_QUALITY_ITERATIONS)

C4_EmptyContentIsFatal ==
    (content # Unbound /\ ~Truthy(content)) =>
        /\ pc = "error"
        /\ error = HTTPException(500, "Generated article has no content")
        /\ result = Unbound
        /\ log[Len(log)].ev = "generated"
        /\ log[Len(log)].iteration = iteration
        /\ ~log[Len(log)].out.raised
        /\ EventsAt("evaluate", iteration) = {}
        /\ \A i \in Events("generate") : log[i].iteration <= iteration

\* empty content on the second attempt of the strict-JSON backend
C4_Witness ==
    /\ content = JStr("")
    /\ pc = "error"
    /\ iteration = 2
    /\ ScoredAt(1)

(* C5: the feedback argument of the generation call is None on iteration 1; *)
(* on iteration k >= 2 it is the string "Quality score: <score, 2           *)
(* decimals>. <feedback> Suggestions: <suggestions joined by '; '>" built   *)
(* from the QualityFeedback of iteration k-1 alone, and the prompt of       *)
(* iteration k starts with it.                                              *)
C5_FeedbackOf(qf) ==
    "Quality score: " \o FormatScore2(qf.score) \o ". " \o qf.feedback
    \o " Suggestions: " \o Join(qf.suggestions, "; ")

C5_FeedbackThreading ==
    \A i \in Events("generate") :
        LET k == log[i].iteration IN
        IF k = 1
        THEN /\ log[i].feedback = JNull
             /\ log[i].prompt_parts = BuildUserPrompt(selected_model, context, JNull)
        ELSE LET qf == EventAt("evaluated", k - 1).out.value IN
             /\ log[i].feedback = JStr(C5_FeedbackOf(qf))
             /\ log[i].prompt_parts =
                  <<"PREVIOUS FEEDBACK TO IMPROVE: " \o C5_FeedbackOf(qf) \o "\n">>
                  \o BuildUserPrompt(selected_model, context, JNull)
             /\ qf.score = 500 =>
                  log[i].feedback.v =
                    "Quality score: 0.50. Needs more depth. Suggestions: Add data; Shorten the intro"
             /\ qf.score = 849 =>
                  log[i].feedback.v = "Quality score: 0.85. Almost there. Suggestions: "

\* the third call carries the second verdict, which differs from the first
C5_Witness ==
    /\ EventsAt("generate", 3) # {}
    /\ EventAt("evaluated", 1).out.value.score = 849
    /\ EventAt("evaluated", 2).out.value.score = 500
    /\ EventAt("generate", 3).feedback # EventAt("generate", 2).feedback

(* C6: when a generation call raises, it is the last call of the run: the   *)
(* call is not repeated, no scoring or translation call follows, the run    *)
(* ends in an HTTP 500 error and returns no result, also after an earlier   *)
(* iteration produced a scored draft.                                       *)
C6_GenerationFailureIsFatal ==
    \A i \in Events("generated") :
        log[i].out.raised =>
            /\ i = Len(log)
            /\ pc = "error"
            /\ error.type = "HTTPException" /\ error.status_code = 500
            /\ result = Unbound

C6_Witness ==
    /\ pc = "error"
    /\ log[Len(log)].ev = "generated"
    /\ log[Len(log)].out.raised
    /\ iteration = 2
    /\ ScoredAt(1)

(* C7: when a scoring call raises (an unparseable reply included), it is    *)
(* the last call of the run: the run ends in an HTTP 500 error and returns  *)
(* no result although the iteration's draft has content; the scorer is not  *)
(* called again and no generation call follows.                             *)
C7_ScoringFailureIsFatal ==
    \A i \in Events("evaluated") :
        log[i].out.raised =>
            /\ i = Len(log)
            /\ pc = "error"
            /\ error.type = "HTTPException" /\ error.status_code = 500
            /\ result = Unbound
            /\ Truthy(content)

\* the scorer's reply is not JSON
C7_Witness ==
    /\ pc = "error"
    /\ log[Len(log)].ev = "evaluated"
    /\ log[Len(log)].out = Raise("Error evaluating article quality: json")
    /\ Truthy(content)

(* C8: every iteration makes exactly one generation call, followed by at    *)
(* most one scoring call; a call is made only after the call before it has  *)
(* returned; and the generation call of iteration N+1 exists exactly when   *)
(* iteration N produced content, its scoring call returned a score below    *)
(* the threshold, and N < MAX_QUALITY_ITERATIONS.                           *)
IsCall(e) == e.ev \in {"generate", "evaluate", "translate"}

ReturnOf(kind) ==
    CASE kind = "generate" -> "generated"
      [] kind = "evaluate" -> "evaluated"
      [] kind = "translate" -> "translated"

C8_SequentialIterations ==
    /\ \A i \in LogIdx :
         IF IsCall(log[i])
         THEN i < Len(log) =>
                 /\ log[i + 1].ev = ReturnOf(log[i].ev)
                 /\ log[i + 1].iteration = log[i].iteration
         ELSE i > 1 /\ IsCall(log[i - 1])
    /\ \A i \in LogIdx : log[i].iteration \in 1..iteration
    /\ \A n \in 1..iteration :
         /\ Cardinality(EventsAt("generate", n)) = 1
         /\ Cardinality(EventsAt("evaluate", n)) <= 1
         /\ \A e \in EventsAt("evaluate", n) :
              \E g \in EventsAt("generated", n) : e = g + 1
    /\ \A n \in 1..MAX_QUALITY_ITERATIONS :
         EventsAt("generate", n + 1) # {} <=>
            /\ ScoredAt(n)
            /\ Truthy(ContentAt(n))
            /\ ScoreAt(n) < QUALITY_THRESHOLD
            /\ n < MAX_QUALITY_ITERATIONS

C8_Witness ==
    /\ pc = "returned"
    /\ EventsAt("generate", 3) # {}
    /\ Events("translated") # {}
    /\ ScoreAt(3) < QUALITY_THRESHOLD

(* C9: every generation call of a run goes to the backend of the first      *)
(* call, and the content is extracted from each reply by the rule of that   *)
(* backend.                                                                 *)
C9_RuleOf(backend, ar) ==
    IF backend = "gemini"
    THEN PyOr(Get(ar, "html_content", JStr("")), Get(ar, "content", JStr("")))
    ELSE PyOr(Get(ar, "markdown_content", JStr("")), Get(ar, "content", JStr("")))

C9_BackendFixed ==
    /\ \A i \in Events("generate") : log[i].backend = log[1].backend
    /\ content # Unbound => content = C9_RuleOf(log[1].backend, article_result)
    /\ \A i \in Events("evaluate") :
         log[i].article_content = C9_RuleOf(log[1].backend, log[i - 1].out.value)

C9_Witness ==
    /\ Cardinality(Events("generate")) = 3
    /\ \A i \in Events("generate") : log[i].backend = "gpt"
    /\ Cardinality(Events("evaluate")) = 3

(* C10: for each backend, when generate_article returns a draft whose       *)
(* article text is not empty, the loop takes that text as the content and   *)
(* calls the quality scorer with it; such a draft never ends in the error   *)
(* "Generated article has no content".                                      *)
C10_NonEmptyDraftIsScored ==
    \A i \in Events("generated") :
        LET backend == log[i - 1].backend IN
        (~log[i].out.raised /\ Truthy(ArticleText(backend, log[i].out.value))) =>
            /\ error # HTTPException(500, "Generated article has no content")
            /\ i < Len(log)
            /\ log[i + 1].ev = "evaluate"
            /\ log[i + 1].article_content = ArticleText(backend, log[i].out.value)


(* C12: when translation is requested and the translator raises or reports *)
(* translation_success = false, the loop still returns a result; its        *)
(* content, layout, quality_score and iterations (and source usage) are the *)
(* ones of the result built before the translator was called, and it has no *)
(* thai_content; on the accepted path and on the exhausted path alike.      *)
TranslationFailedAt(i) ==
    /\ log[i].ev = "translated"
    /\ \/ log[i].out.raised
       \/ ~log[i].out.value.translation_success

UntranslatedResult(n) ==
    BaseResult(ContentAt(n), ParseLayout(LayoutAt(n)).value, EventAt("evaluated", n).out.value,
               n, EventAt("generated", n).out.value)

C12_DegradedTranslation ==
    \A i \in LogIdx :
        TranslationFailedAt(i) =>
            /\ include_thai_translation
            /\ pc = "returned"
            /\ error = NoError
            /\ result = UntranslatedResult(log[i].iteration)
            /\ "thai_content" \notin DOMAIN result
            /\ "thai_layout" \notin DOMAIN result

\* the exhausted path: three low scores, then the translator reports a failure
C12_Witness ==
    /\ pc = "returned"
    /\ AllAttemptsLow
    /\ \E i \in LogIdx : /\ TranslationFailedAt(i)
                         /\ ~log[i].out.raised
                         /\ log[i].out.value.error = "Translation failed: provider"
    /\ result["iterations"] = MAX_QUALITY_ITERATIONS

\* the accepted path: the translator raises on the accepted draft
C12_WitnessAcceptedRaises ==
    /\ pc = "returned"
    /\ result["iterations"] = 1
    /\ result["quality_score"] >= QUALITY_THRESHOLD
    /\ \E i \in LogIdx : log[i].ev = "translated" /\ log[i].out.raised

(* C13: with include_thai_translation set, a run that returns (by           *)
(* acceptance or by exhaustion) has called the translator exactly once,     *)
(* after the last scoring call and with the draft it returns; the           *)
(* translator is never called when the flag is false, nor in a run that     *)
(* ends in an error.                                                        *)
TranslatorCalls == Events("translate")

-----------------------------------------------------------------------------
(* POST /generate-article: the request, its URLs and keywords, the scraper  *)
(* and the PDF processor, as _build_generation_context uses them.           *)
(*                                                                          *)
(* A request is the JSON body as a function from its keys.  A keywords      *)
(* string is [t |-> "text", v |-> the sequence of its characters], so that  *)
(* split and strip work on it.  A URL is carried in parts: scheme, the      *)
(* labels of the host, path.                                                *)

\* the fields of ArticleRequest; pydantic drops every other key of the body
ArticleRequestFields ==
    {"topic_category", "industry", "target_audience", "source_url", "source_urls",
     "url_instructions", "pdf_base64", "seo_keywords", "custom_prompt",
     "include_thai_translation"}

\* request.<name>: the field's value or default, AttributeError for a name that
\* is not a field
GetAttr(req, name) ==
    IF name \in ArticleRequestFields
    THEN Return(Get(req, name, IF name = "include_thai_translation" THEN FALSE ELSE JNull))
    ELSE Raise("'ArticleRequest' object has no attribute '" \o name \o "'")

Text(chars) == [t |-> "text", v |-> chars]

Whitespace == {" ", "\t"}

\* s.split(sep) on a sequence of characters
RECURSIVE Split(_, _)
Split(chars, sep) ==
    IF \A i \in 1..Len(chars) : chars[i] # sep THEN <<chars>>
    ELSE LET at == CHOOSE i \in 1..Len(chars) :
                       chars[i] = sep /\ \A j \in 1..(i - 1) : chars[j] # sep
         IN <<SubSeq(chars, 1, at - 1)>> \o Split(SubSeq(chars, at + 1, Len(chars)), sep)

\* s.strip()
Strip(chars) ==
    LET keep == {i \in 1..Len(chars) : chars[i] \notin Whitespace} IN
    IF keep = {} THEN <<>>
    ELSE LET lo == CHOOSE i \in keep : \A j \in keep : i <= j
             hi == CHOOSE i \in keep : \A j \in keep : i >= j
         IN SubSeq(chars, lo, hi)

\* [x for x in xs if x]
RECURSIVE NonEmpty(_)
NonEmpty(xs) ==
    IF Len(xs) = 0 THEN <<>>
    ELSE (IF Head(xs) = <<>> THEN <<>> ELSE <<Head(xs)>>) \o NonEmpty(Tail(xs))

\* variant: the parts are not stripped
parse_seo_keywords_unstripped(keywords_string) ==
    IF keywords_string.t = "null" \/ keywords_string.v = <<>> THEN <<>>
    ELSE NonEmpty(Split(keywords_string.v, ","))

\* parse_seo_keywords
parse_seo_keywords(keywords_string) ==
    IF keywords_string.t = "null" \/ keywords_string.v = <<>> THEN <<>>
    ELSE LET parts == Split(keywords_string.v, ",")
             keywords == [i \in 1..Len(parts) |-> Strip(parts[i])]
         IN NonEmpty(keywords)

\* ', '.join(keywords) on sequences of characters
RECURSIVE JoinChars(_, _)
JoinChars(parts, sep) ==
    IF Len(parts) = 0 THEN <<>>
    ELSE IF Len(parts) = 1 THEN parts[1]
    ELSE parts[1] \o sep \o JoinChars(Tail(parts), sep)

Url(scheme, labels, path) == [t |-> "url", scheme |-> scheme, host |-> labels, path |-> path]

\* paths that \S+ does not match
PathsWithWhitespace == {"/annual report"}

\* validate_url: http or https in any case, then a dotted domain whose last
\* label has 2 to 6 letters, or localhost, or four groups of digits, then a
\* path without whitespace (labels of the model are alphanumeric)
DigitLabels == {"10", "0", "1"}

validate_url(url) ==
    /\ url.scheme \in {"http", "https", "HTTP", "HTTPS"}
    /\ \/ Len(url.host) >= 2 /\ url.host[Len(url.host)] \notin DigitLabels
          /\ Len(url.host[Len(url.host)]) >= 2 /\ Len(url.host[Len(url.host)]) <= 6
       \/ url.host = <<"localhost">>
       \/ Len(url.host) = 4 /\ \A i \in 1..4 : url.host[i] \in DigitLabels
    /\ url.path \notin PathsWithWhitespace

\* the literal 5 of "[:5]" and of max_urls=5
UrlCap == 5

\* list(dict.fromkeys(urls)): the first occurrence of each element, in order
RECURSIVE DictFromKeys(_)
DictFromKeys(urls) ==
    IF Len(urls) = 0 THEN <<>>
    ELSE LET front == DictFromKeys(SubSeq(urls, 1, Len(urls) - 1))
             last == urls[Len(urls)]
         IN IF \E i \in 1..Len(front) : front[i] = last THEN front ELSE Append(front, last)

\* xs[:n]
Take(xs, n) == SubSeq(xs, 1, IF Len(xs) < n THEN Len(xs) ELSE n)

\* the URLs the request names: source_url first, then source_urls
RequestedUrls(req) ==
    LET source_url == GetAttr(req, "source_url").value
        source_urls == GetAttr(req, "source_urls").value
    IN (IF source_url.t # "null" THEN <<source_url>> ELSE <<>>)
       \o (IF Truthy(source_urls) THEN source_urls.v ELSE <<>>)

\* variant: the cap is applied before the duplicates are removed
UrlsToProcessCappedFirst(req) == DictFromKeys(Take(RequestedUrls(req), UrlCap))

\* urls_to_process of _build_generation_context
UrlsToProcess(req) == Take(DictFromKeys(RequestedUrls(req)), UrlCap)

\* the validation loop up to and including URL n
ValidationEvents(urls, n) ==
    [i \in 1..n |-> [ev |-> "validate", url |-> urls[i], valid |-> validate_url(urls[i])]]

AllValid(urls) == \A i \in 1..Len(urls) : validate_url(urls[i])

\* what one fetch can do: scrape_url and scrape_url_with_metadata raise, or
\* return the cleaned text of the page
ScrapeOutcomes == {Raise("Error fetching URL"), Return("Page text")}

ScrapeEvent(url, out) == [ev |-> "scrape", url |-> url, out |-> out]

\* variant: a failed fetch makes scrape_multiple_urls raise
ScrapeMultipleUrlsStrict(urls, outs) ==
    LET fetched == Take(urls, UrlCap) IN
    IF \E i \in 1..Len(fetched) : outs[i].raised
    THEN Raise("Error fetching URL")
    ELSE Return([i \in 1..Len(fetched) |->
                    [url |-> fetched[i], title |-> "Untitled", content |-> outs[i].value]])

\* WebScraperService.scrape_multiple_urls: a URL whose fetch raises is skipped
ScrapeMultipleUrls(urls, outs) ==
    LET fetched == Take(urls, UrlCap)
        ok == {i \in 1..Len(fetched) : ~outs[i].raised}
        Nth(k) == CHOOSE i \in ok : Cardinality({j \in ok : j <= i}) = k
    IN Return([k \in 1..Cardinality(ok) |->
                  [url |-> fetched[Nth(k)], title |-> "Untitled", content |-> outs[Nth(k)].value]])

\* the scraping block: what it adds to context_data, or the exception it raises
Scrape(urls, outs) ==
    IF Len(urls) = 0 THEN Return(EmptyDict)
    ELSE IF Len(urls) = 1
    THEN IF outs[1].raised
         THEN Raise("Error scraping URLs: " \o outs[1].detail)
         ELSE Return([scraped_content |-> JStr(outs[1].value)])
    ELSE LET scraped_sources == ScrapeMultipleUrls(urls, outs) IN
         IF scraped_sources.raised
         THEN Raise("Error scraping URLs: " \o scraped_sources.detail)
         ELSE Return([scraped_sources |-> JList(scraped_sources.value)])

ScrapeEvents(urls, outs) ==
    [i \in 1..Len(urls) |-> ScrapeEvent(urls[i], outs[i])]

\* "len(text_content.strip()) < 100"
MinDirectText == 100

LongText ==
    "Quarterly report: revenue grew in every region, led by cloud services and "
    \o "consulting, while costs stayed flat across the year."

\* what the PDF can be: not base64 at all, or a document whose direct
\* extraction and OCR each give a text ("" when the step failed)
PdfOutcomes ==
    {[decodes |-> FALSE, direct |-> "", ocr |-> ""],
     [decodes |-> TRUE, direct |-> LongText, ocr |-> ""],
     [decodes |-> TRUE, direct |-> "p. 1", ocr |-> LongText],
     [decodes |-> TRUE, direct |-> "", ocr |-> ""]}

\* _clean_extracted_text on the one-line texts of the model
CleanExtractedText(text) == IF Len(text) > 3 THEN text ELSE ""

\* variant: a PDF that yields no text is an error
ProcessPdfBase64Strict(pdf) ==
    IF ~pdf.decodes THEN Raise("Error processing PDF: Incorrect padding")
    ELSE LET text_content == IF Len(pdf.direct) < MinDirectText THEN pdf.ocr ELSE pdf.direct
         IN IF CleanExtractedText(text_content) = ""
            THEN Raise("Error processing PDF: no text")
            ELSE Return(CleanExtractedText(text_content))

\* PDFProcessorService.process_pdf_base64
ProcessPdfBase64(pdf) ==
    IF ~pdf.decodes THEN Raise("Error processing PDF: Incorrect padding")
    ELSE LET text_content == IF Len(pdf.direct) < MinDirectText THEN pdf.ocr ELSE pdf.direct
         IN Return(CleanExtractedText(text_content))

\* GenerationContext(**context_data)
GenerationContext(req, scraped, pdf_content) ==
    [topic_category |-> GetAttr(req, "topic_category").value,
     industry |-> GetAttr(req, "industry").value,
     target_audience |-> GetAttr(req, "target_audience").value,
     seo_keywords |-> parse_seo_keywords(GetAttr(req, "seo_keywords").value),
     custom_prompt |-> GetAttr(req, "custom_prompt").value,
     scraped_content |-> Get(scraped, "scraped_content", JNull),
     scraped_sources |-> Get(scraped, "scraped_sources", JNull),
     url_instructions |-> JNull,
     pdf_content |-> pdf_content]

-----------------------------------------------------------------------------
(* Inputs of a request *)

NumUrls == 7

U(i) == Url("https", <<"site" \o ToString(i), "com">>, "/news")

FtpUrl == Url("ftp", <<"files", "com">>, "/a")

BareHostUrl == Url("http", <<"intranet">>, "")

SpaceUrl == Url("https", <<"site1", "com">>, "/annual report")

LocalUrl == Url("HTTP", <<"localhost">>, "")

IpUrl == Url("http", <<"10", "0", "0", "1">>, "/status")

SourceUrls == {JNull, U(1), LocalUrl, BareHostUrl}

SourceUrlLists ==
    {JNull, JList(<<>>),
     JList(<<U(2), U(1), U(2)>>),
     JList([i \in 1..NumUrls |-> U(i)]),
     JList(<<U(1), U(1)>> \o [i \in 1..(NumUrls - 2) |-> U(i + 1)]),
     JList(<<IpUrl, FtpUrl, U(2)>>),
     JList([i \in 1..UrlCap |-> U(i)] \o <<SpaceUrl>>),
     JList(<<U(2), SpaceUrl>>)}

KeywordStrings ==
    {JNull, Text(<<>>),
     Text(<<"a", "i", ",", " ", "c", "l", "o", "u", "d">>),
     Text(<<" ", "a", "i", " ", ",", ",", " ", "\t", ",", "i", "o", "t", ",">>),
     Text(<<"a", "i", ",", "i", "o", "t", ",", " ", "a", "i">>)}

\* the key selected_model of the body: absent, or one of the two models
\* a request's url_instructions: one UrlContentInstruction
UrlInstructions ==
    JList(<<JObj([url |-> JStr("https://example.com/report"),
                  content_focus |-> JStr("market figures"),
                  usage_instruction |-> JStr("quote the statistics"),
                  section_target |-> JStr("Introduction"),
                  extraction_type |-> JStr("statistics")])>>)

BodiesOf(req) ==
    {req, Put(req, "url_instructions", UrlInstructions)}
    \cup {Put(req, "selected_model", JStr(m)) : m \in Models}

Requests ==
    UNION {BodiesOf([topic_category |-> JStr("Technology"),
                     source_url |-> u, source_urls |-> us,
                     pdf_base64 |-> pdf, seo_keywords |-> k]) :
               u \in SourceUrls, us \in SourceUrlLists,
               pdf \in {JNull, JStr("JVBERi0xLjQ=")}, k \in KeywordStrings}

\* what the model providers are set to answer while the request is served
AnalysisReplies ==
    {Fail, Json(JObj([strengths |-> JList(<<JStr("Clear")>>), summary |-> JStr("Solid.")]))}

ProviderSettings ==
    [generation : {Json(JObj([content |-> JStr(DraftText(1)), layout |-> GoodLayout]))},
     scoring : {Json(JObj([score |-> JNum(900), feedback |-> JStr("Publish-ready.")]))},
     analysis : AnalysisReplies]

-----------------------------------------------------------------------------
(* generate_article (the endpoint) and _build_generation_context *)

EndpointInit ==
    /\ pc = "received"
    /\ request \in Requests
    /\ providers \in ProviderSettings
    /\ urls_to_process = <<>>
    /\ context = Unbound
    /\ selected_model = Unbound
    /\ include_thai_translation = FALSE
    /\ iteration = 0
    /\ feedback = JNull
    /\ article_result = Unbound
    /\ content = Unbound
    /\ layout_data = Unbound
    /\ quality_feedback = Unbound
    /\ result = Unbound
    /\ error = NoError
    /\ log = <<>>
    /\ kw = Unbound
    /\ settings = Settings
    /\ parked = Unbound

\* what context building leaves alone
outside_context ==
    <<selected_model, include_thai_translation, iteration, feedback, article_result,
      content, layout_data, quality_feedback, result, request, providers, kw,
      settings, parked>>

\* variant: the URLs are validated one by one, each right before it is fetched
BuildContextInvalidUrlLate ==
    /\ pc = "received"
    /\ LET urls == UrlsToProcess(request) IN
       /\ ~AllValid(urls)
       /\ LET first == CHOOSE i \in 1..Len(urls) :
                           ~validate_url(urls[i]) /\ \A j \in 1..(i - 1) : validate_url(urls[j])
          IN \E outs \in [1..(first - 1) -> {Return("Page text")}] :
               log' = log \o [i \in 1..(2 * first - 1) |->
                                IF i % 2 = 1
                                THEN ValidationEvents(urls, first)[(i + 1) \div 2]
                                ELSE ScrapeEvent(urls[i \div 2], outs[i \div 2])]
       /\ urls_to_process' = urls
    /\ error' = HTTPException(400, "Invalid URL format")
    /\ pc' = "failed"
    /\ UNCHANGED context
    /\ UNCHANGED outside_context

\* a URL to process fails validate_url: HTTPException 400
BuildContextInvalidUrl ==
    /\ pc = "received"
    /\ LET urls == UrlsToProcess(request) IN
       /\ ~AllValid(urls)
       /\ LET first == CHOOSE i \in 1..Len(urls) :
                           ~validate_url(urls[i]) /\ \A j \in 1..(i - 1) : validate_url(urls[j])
          IN log' = log \o ValidationEvents(urls, first)
       /\ urls_to_process' = urls
    /\ error' = HTTPException(400, "Invalid URL format")
    /\ pc' = "failed"
    /\ UNCHANGED context
    /\ UNCHANGED outside_context

\* the URLs are valid and the scraping block raises: HTTPException 400
BuildContextScrapeRaises ==
    /\ pc = "received"
    /\ LET urls == UrlsToProcess(request) IN
       /\ AllValid(urls)
       /\ \E outs \in [1..Len(urls) -> ScrapeOutcomes] :
            /\ Scrape(urls, outs).raised
            /\ log' = log \o ValidationEvents(urls, Len(urls)) \o ScrapeEvents(urls, outs)
            /\ error' = HTTPException(400, Scrape(urls, outs).detail)
       /\ urls_to_process' = urls
    /\ pc' = "failed"
    /\ UNCHANGED context
    /\ UNCHANGED outside_context

\* scraping went through and process_pdf_base64 raises: HTTPException 400
BuildContextPdfRaises ==
    /\ pc = "received"
    /\ GetAttr(request, "pdf_base64").value.t # "null"
    /\ LET urls == UrlsToProcess(request) IN
       /\ AllValid(urls)
       /\ \E outs \in [1..Len(urls) -> ScrapeOutcomes], pdf \in PdfOutcomes :
            /\ ~Scrape(urls, outs).raised
            /\ ProcessPdfBase64(pdf).raised
            /\ log' = log \o ValidationEvents(urls, Len(urls)) \o ScrapeEvents(urls, outs)
                          \o <<[ev |-> "pdf", pdf |-> pdf, out |-> ProcessPdfBase64(pdf)]>>
            /\ error' = HTTPException(400, "Error processing PDF: " \o ProcessPdfBase64(pdf).detail)
       /\ urls_to_process' = urls
    /\ pc' = "failed"
    /\ UNCHANGED context
    /\ UNCHANGED outside_context

\* nothing raises: the context is built
BuildContextReturns ==
    /\ pc = "received"
    /\ LET urls == UrlsToProcess(request)
           has_pdf == GetAttr(request, "pdf_base64").value.t # "null"
       IN
       /\ AllValid(urls)
       /\ \E outs \in [1..Len(urls) -> ScrapeOutcomes], pdf \in PdfOutcomes :
            /\ ~Scrape(urls, outs).raised
            /\ has_pdf => ~ProcessPdfBase64(pdf).raised
            /\ log' = log \o ValidationEvents(urls, Len(urls)) \o ScrapeEvents(urls, outs)
                          \o (IF has_pdf
                              THEN <<[ev |-> "pdf", pdf |-> pdf, out |-> ProcessPdfBase64(pdf)]>>
                              ELSE <<>>)
            /\ context' = GenerationContext(request, Scrape(urls, outs).value,
                                            IF has_pdf THEN JStr(ProcessPdfBase64(pdf).value)
                                            ELSE JNull)
       /\ urls_to_process' = urls
    /\ pc' = "context_built"
    /\ UNCHANGED error
    /\ UNCHANGED outside_context

\* "Generate article with quality loop": the arguments of the call are read
\* off the request; an exception that is not an HTTPException becomes a 500
CallQualityLoop ==
    /\ pc = "context_built"
    /\ LET thai == GetAttr(request, "include_thai_translation")
           model == GetAttr(request, "selected_model")
       IN IF thai.raised \/ model.raised
          THEN /\ pc' = "failed"
               /\ error' = HTTPException(500, "Error generating article: "
                                               \o (IF thai.raised THEN thai.detail ELSE model.detail))
               /\ UNCHANGED <<selected_model, include_thai_translation, iteration, feedback, log>>
          ELSE /\ pc' = "generating"
               /\ include_thai_translation' = thai.value
               /\ selected_model' = model.value.v
               /\ iteration' = 1
               /\ feedback' = JNull
               /\ error' = error
               /\ log' = Append(log, [ev |-> "generate", iteration |-> 1,
                                      backend |-> BackendOf(model.value.v), feedback |-> JNull])
    /\ UNCHANGED <<context, article_result, content, layout_data, quality_feedback, result,
                   request, providers, urls_to_process, kw, settings, parked>>

EndpointNext ==
    \/ BuildContextInvalidUrl
    \/ BuildContextScrapeRaises
    \/ BuildContextPdfRaises
    \/ BuildContextReturns
    \/ CallQualityLoop

EndpointSpec == EndpointInit /\ [][EndpointNext]_vars

-----------------------------------------------------------------------------
(* Reading a request's run *)

ContextBuilt == context # Unbound

\* the request is past "Generation context built successfully"
PastContextBuilding == pc \notin {"received", "context_built"}

LoopStarted == Events("generate") # {}

(* C11: a request whose context building succeeds reaches the first         *)
(* generation call of the quality loop, on the lenient backend when the     *)
(* request's selected_model is 'gemini-pro' and on the strict-JSON backend  *)
(* for every other value, a request without selected_model included.        *)
C11_BackendSelectable ==
    (ContextBuilt /\ PastContextBuilding) =>
        /\ LoopStarted
        /\ \A i \in Events("generate") :
               (\A j \in Events("generate") : i <= j) =>
                   log[i].backend = IF Get(request, "selected_model", JNull) = JStr("gemini-pro")
                                    THEN "gemini" ELSE "gpt"

(* C14: with a context built and providers that answer generation and       *)
(* scoring with an acceptable draft and score, a failing analysis provider  *)
(* does not make the request fail: no error is raised for it.               *)
C14_AnalysisFailureTolerated ==
    (ContextBuilt /\ PastContextBuilding /\ providers.analysis = Fail) =>
        /\ pc # "failed"
        /\ error = NoError

(* C15: when a URL of urls_to_process fails validate_url, the request ends  *)
(* in HTTP 400 with nothing but validations made: no scrape, no PDF         *)
(* extraction, no generation or scoring call, no context; and in every run  *)
(* all URLs are validated before the first scrape.                          *)
ValidatedBeforeScraping ==
    \A i \in Events("scrape") :
        /\ \A j \in Events("validate") : j < i
        /\ Cardinality(Events("validate")) = Len(urls_to_process)

C15_InvalidUrlRejected ==
    /\ ValidatedBeforeScraping
    /\ (pc # "received" /\ ~AllValid(urls_to_process)) =>
          /\ pc = "failed"
          /\ error = HTTPException(400, "Invalid URL format")
          /\ ~ContextBuilt
          /\ \A i \in LogIdx : log[i].ev = "validate"

\* the second URL is the invalid one: the first one was validated, not fetched
C15_Witness ==
    /\ pc = "failed"
    /\ Len(urls_to_process) >= 3
    /\ validate_url(urls_to_process[1])
    /\ ~validate_url(urls_to_process[2])
    /\ Cardinality(Events("validate")) = 2

(* C16: when a PDF is supplied and no text can be extracted from it (direct *)
(* extraction fails and the OCR fallback fails or yields nothing), context  *)
(* building is aborted with a client error: no context is built from it.    *)
NoTextExtracted(pdf) == pdf.direct = "" /\ pdf.ocr = ""

C16_FailedPdfAborts ==
    \A i \in Events("pdf") :
        NoTextExtracted(log[i].pdf) =>
            /\ pc = "failed"
            /\ error.status_code = 400
            /\ ~ContextBuilt
            /\ ~LoopStarted

(* C17 as stated: when scraping fails for a URL being processed (one URL or *)
(* several), context building is aborted with a client-facing error, the    *)
(* loop never starts and no context is built from a subset of the sources.  *)
ScrapeFailures == {i \in Events("scrape") : log[i].out.raised}

C17_ScrapeFailureAborts ==
    ScrapeFailures # {} =>
        /\ pc = "failed"
        /\ error.status_code = 400
        /\ ~ContextBuilt
        /\ ~LoopStarted

(* C17 amended: when scraping fails for the only URL being processed,       *)
(* context building is aborted with HTTP 400 and the loop never starts;     *)
(* when several URLs are processed, a URL whose scraping fails is skipped:  *)
(* scraping never rejects the request, and the context holds exactly the    *)
(* sources that were scraped, in the order of the URLs (possibly none).     *)
ScrapedUrls ==
    LET ok == Events("scrape") \ ScrapeFailures
        Nth(k) == CHOOSE i \in ok : Cardinality({j \in ok : j <= i}) = k
    IN [k \in 1..Cardinality(ok) |-> log[Nth(k)].url]

C17_ScrapeFailureSingleAborts ==
    /\ (ScrapeFailures # {} /\ Len(urls_to_process) = 1) =>
          /\ pc = "failed"
          /\ error = HTTPException(400, "Error scraping URLs: Error fetching URL")
          /\ ~ContextBuilt
          /\ ~LoopStarted
    /\ (Len(urls_to_process) > 1 /\ Events("scrape") # {}) =>
          /\ (pc = "failed" /\ ~ContextBuilt) => Events("pdf") # {}
          /\ ContextBuilt =>
                /\ context.scraped_content = JNull
                /\ Len(context.scraped_sources.v) = Len(ScrapedUrls)
                /\ \A k \in 1..Len(ScrapedUrls) :
                       context.scraped_sources.v[k].url = ScrapedUrls[k]

\* three URLs, the second one could not be fetched: a context from the others
C17_Witness ==
    /\ ContextBuilt
    /\ Len(urls_to_process) = 3
    /\ Cardinality(ScrapeFailures) = 1
    /\ Len(context.scraped_sources.v) = 2
    /\ context.scraped_sources.v[2].url = urls_to_process[3]

\* one URL that could not be fetched: rejected
C17_WitnessSingle ==
    /\ pc = "failed"
    /\ Len(urls_to_process) = 1
    /\ ScrapeFailures # {}

(* C18: urls_to_process is the first 5 elements of the list [source_url (if *)
(* set)] + source_urls with later duplicates removed and first-occurrence   *)
(* order kept; the duplicates go before the cap, so 7 distinct URLs give    *)
(* exactly the first 5.                                                     *)
FirstOccurrences(urls) == {j \in 1..Len(urls) : \A i \in 1..(j - 1) : urls[i] # urls[j]}

C18_UrlsDedupedThenCapped ==
    pc # "received" =>
        LET all == RequestedUrls(request)
            first == FirstOccurrences(all)
        IN /\ Len(urls_to_process) =
                  (IF Cardinality(first) < 5 THEN Cardinality(first) ELSE 5)
           /\ \A k \in 1..Len(urls_to_process) :
                  \E j \in first : /\ Cardinality({i \in first : i <= j}) = k
                                   /\ urls_to_process[k] = all[j]

\* U(1) three times among eight requested URLs: seven distinct, five processed
C18_Witness ==
    /\ pc # "received"
    /\ Len(RequestedUrls(request)) > NumUrls
    /\ Cardinality(FirstOccurrences(RequestedUrls(request))) >= 7
    /\ urls_to_process = [i \in 1..5 |-> U(i)]

(* C20: the seo_keywords of a built context are in input order, without a   *)
(* blank (empty or whitespace-only) entry and without a keyword twice.      *)
IsBlankChars(chars) == \A i \in 1..Len(chars) : chars[i] \in Whitespace

InInputOrder(keywords, keywords_string) ==
    LET parts == IF keywords_string.t = "null" THEN <<>> ELSE Split(keywords_string.v, ",")
    IN \E at \in [1..Len(keywords) -> 1..Len(parts)] :
           /\ \A i, j \in 1..Len(keywords) : i < j => at[i] < at[j]
           /\ \A i \in 1..Len(keywords) : keywords[i] = Strip(parts[at[i]])

C20_KeywordsCleaned ==
    ContextBuilt =>
        LET keywords == context.seo_keywords IN
        /\ InInputOrder(keywords, Get(request, "seo_keywords", JNull))
        /\ \A i \in 1..Len(keywords) : ~IsBlankChars(keywords[i])
        /\ \A i, j \in 1..Len(keywords) : i # j => keywords[i] # keywords[j]

-----------------------------------------------------------------------------
(* parse_seo_keywords on its own: a keywords string is parsed, the list is  *)
(* joined with ', ' and the joined string is parsed again.                  *)

MaxKeywordChars == 5

KeywordAlphabet == {"a", "b", ",", " "}

KeywordInputs ==
    {JNull} \cup {Text(chars) : chars \in UNION {[1..n -> KeywordAlphabet] : n \in 0..MaxKeywordChars}}

KeywordInit ==
    /\ kw \in {[at |-> "input", keywords_string |-> k] : k \in KeywordInputs}
    /\ pc = "idle"
    /\ request = Unbound
    /\ providers = Unbound
    /\ urls_to_process = <<>>
    /\ context = Unbound
    /\ selected_model = Unbound
    /\ include_thai_translation = FALSE
    /\ iteration = 0
    /\ feedback = JNull
    /\ article_result = Unbound
    /\ content = Unbound
    /\ layout_data = Unbound
    /\ quality_feedback = Unbound
    /\ result = Unbound
    /\ error = NoError
    /\ log = <<>>
    /\ settings = Settings
    /\ parked = Unbound

outside_keywords ==
    <<pc, selected_model, include_thai_translation, context, iteration, feedback,
      article_result, content, layout_data, quality_feedback, result, error, log,
      request, providers, urls_to_process, settings, parked>>

ParseKeywords ==
    /\ kw.at = "input"
    /\ kw' = [at |-> "parsed", keywords_string |-> kw.keywords_string,
              keywords |-> parse_seo_keywords(kw.keywords_string)]
    /\ UNCHANGED outside_keywords

JoinKeywords ==
    /\ kw.at = "parsed"
    /\ kw' = [at |-> "joined", keywords_string |-> kw.keywords_string,
              keywords |-> kw.keywords,
              joined |-> Text(JoinChars(kw.keywords, <<",", " ">>))]
    /\ UNCHANGED outside_keywords

ReparseKeywords ==
    /\ kw.at = "joined"
    /\ kw' = [at |-> "reparsed", keywords_string |-> kw.keywords_string,
              keywords |-> kw.keywords, joined |-> kw.joined,
              reparsed |-> parse_seo_keywords(kw.joined)]
    /\ UNCHANGED outside_keywords

KeywordNext ==
    \/ ParseKeywords
    \/ JoinKeywords
    \/ ReparseKeywords

KeywordSpec == KeywordInit /\ [][KeywordNext]_vars

(* C19: parse_seo_keywords(', '.join(parse_seo_keywords(s))) is             *)
(* parse_seo_keywords(s), the same keywords in the same order, for every    *)
(* keywords string s.                                                       *)
C19_ParseJoinRoundTrip ==
    kw.at = "reparsed" => kw.reparsed = kw.keywords

\* " a,,b " is not what the join gives back, and parses to the same two keywords
C19_Witness ==
    /\ kw.at = "reparsed"
    /\ kw.keywords = <<<<"a">>, <<"b">>>>
    /\ kw.joined # kw.keywords_string
    /\ kw.reparsed = <<<<"a">>, <<"b">>>>

-----------------------------------------------------------------------------
\* generate_article calls that were answered with text that is not JSON
UnparsedReplies ==
    {i \in Events("generated") : log[i].reply.kind = "raw" /\ log[i].reply.text # ""}

\* C21: when the lenient (Gemini) backend is answered with non-empty text that
\* is not JSON, generate_article does not raise: it returns a draft whose
\* article text is the whole reply, whose layout has no sections and no image
\* slots, and whose source_usage_details is empty.
C21_RawReplyIsDraft ==
    BackendOf(selected_model) = "gemini" =>
        \A i \in UnparsedReplies :
            /\ ~log[i].out.raised
            /\ log[i].out.value =
                   [markdown_content |-> JStr(log[i].reply.text),
                    layout |-> JObj([sections |-> JList(<<>>), image_slots |-> JList(<<>>)]),
                    source_usage_details |-> JList(<<>>)]
            /\ ArticleText("gemini", log[i].out.value) = JStr(log[i].reply.text)

C21_Witness ==
    /\ BackendOf(selected_model) = "gemini"
    /\ \E i \in UnparsedReplies :
           /\ ~log[i].out.raised
           /\ log[i].out.value["markdown_content"].v = log[i].reply.text

-----------------------------------------------------------------------------
\* the arguments the loop passes to translate_to_thai
SourceUsageArg == Get(article_result, "source_usage_details", JList(<<>>))

\* calls of translate_to_thai with a string that have returned or raised
StringTranslations == IF content.t = "str" THEN Events("translated") ELSE {}

\* the reply could not be used: no call was made (empty or blank input), the
\* call failed, the reply was empty, or it was not JSON
Unusable(reply) == reply.kind \in {"none", "fail", "raw"}

\* C22 as stated: translate_to_thai never raises for a string input; without a
\* usable reply it returns translation_success = false, empty markdown_content
\* and the caller's layout and source_usage_details unchanged; it returns
\* translation_success = true only after a reply was parsed.
C22_FailureReturnsArgsUnchanged ==
    \A i \in StringTranslations :
        /\ ~log[i].out.raised
        /\ Unusable(log[i].reply) =>
               /\ log[i].out.value.translation_success = FALSE
               /\ log[i].out.value.markdown_content = JStr("")
               /\ log[i].out.value.layout = layout_data
               /\ log[i].out.value.source_usage_details = SourceUsageArg
        /\ log[i].out.value.translation_success = TRUE => log[i].reply.kind = "json"

\* C22, amended: as above, but the layout and the source_usage_details of a
\* failure report are the caller's only when they are truthy; a missing or
\* empty layout comes back as {} and a missing or empty source_usage_details
\* as [].
C22_FailureReturnsArgsOrDefaults ==
    \A i \in StringTranslations :
        /\ ~log[i].out.raised
        /\ Unusable(log[i].reply) =>
               /\ log[i].out.value.translation_success = FALSE
               /\ log[i].out.value.markdown_content = JStr("")
               /\ log[i].out.value.layout =
                      IF Truthy(layout_data) THEN layout_data ELSE JObj(EmptyDict)
               /\ log[i].out.value.source_usage_details =
                      IF Truthy(SourceUsageArg) THEN SourceUsageArg ELSE JList(<<>>)
        /\ log[i].out.value.translation_success = TRUE => log[i].reply.kind = "json"

\* a failure report for a draft whose source_usage_details is null
C22_Witness ==
    \E i \in StringTranslations :
        /\ log[i].reply.kind = "raw"
        /\ SourceUsageArg = JNull
        /\ ~log[i].out.raised
        /\ log[i].out.value.translation_success = FALSE
        /\ log[i].out.value.source_usage_details = JList(<<>>)

-----------------------------------------------------------------------------
\* the scores below the threshold among the scorer's replies
LowScores ==
    {r.v.v["score"].v : r \in {x \in ScoringReplies :
                                   /\ x.kind = "json" /\ x.v.t = "obj"
                                   /\ "score" \in DOMAIN x.v.v
                                   /\ x.v.v["score"].t = "num"
                                   /\ ~MeetsThreshold(x.v.v["score"].v)}}

\* iterations whose verdict was turned into the feedback of the next one
FedBack == {n \in 1..MAX_QUALITY_ITERATIONS : ScoredAt(n) /\ EventsAt("generate", n + 1) # {}}

\* C24: the feedback handed to the generation call of iteration N+1 does not
\* depend on the score of iteration N's verdict: it is the feedback the loop
\* builds from the same verdict with any other below-threshold score in place
\* of its score.
C24_FeedbackIgnoresScore ==
    \A n \in FedBack : \A s \in LowScores :
        EventAt("generate", n + 1).feedback =
            NextFeedback(EventAt("generate", n).feedback,
                         [EventAt("evaluated", n).out.value EXCEPT !.score = s])

-----------------------------------------------------------------------------
\* the score of a reply the scorer parsed: the reply's value, 0.0 without one
ReplyScore(reply) == Get(reply.v.v, "score", JNum(0)).v

\* iterations whose scorer reply became a verdict
Verdicts == {n \in 1..MAX_QUALITY_ITERATIONS : ScoredAt(n)}

ResultBuilt == pc \in {"translating", "returned"}

\* C26: the score is used as the scorer replied it. The quality_score of a
\* result is the score of the last scorer reply; a reply without a score
\* counts as 0.0; a score above 1 ends the run at that iteration like any
\* accepting score; a score below 0 leads to the next iteration, or to
\* exhaustion at the last one, like any low score.
C26_ScoreUsedAsReplied ==
    /\ \A n \in Verdicts :
           LET reply == EventAt("evaluated", n).reply IN
           /\ ScoreAt(n) = ReplyScore(reply)
           /\ "score" \notin DOMAIN reply.v.v => ScoreAt(n) = 0
           /\ ScoreAt(n) > 1000 =>
                  /\ EventsAt("generate", n + 1) = {}
                  /\ iteration = n
                  /\ ResultBuilt \/ (pc = "error" /\ ParseLayout(LayoutAt(n)).raised)
           /\ ScoreAt(n) < 0 =>
                  IF n < MAX_QUALITY_ITERATIONS
                  THEN EventsAt("generate", n + 1) # {}
                  ELSE ResultBuilt \/ (pc = "error" /\ ParseLayout(LayoutAt(n)).raised)
    /\ ResultBuilt =>
           /\ iteration \in Verdicts
           /\ result["quality_score"] = ReplyScore(EventAt("evaluated", iteration).reply)

\* a first draft accepted with a score above 1
C26_Witness ==
    /\ pc = "returned"
    /\ iteration = 1
    /\ result["quality_score"] > 1000
    /\ EventAt("evaluated", 1).reply.v.v["score"].v = result["quality_score"]

\* a run exhausted with a score below 0
C26_WitnessNegative ==
    /\ pc = "returned"
    /\ iteration = MAX_QUALITY_ITERATIONS
    /\ result["quality_score"] < 0

\* a reply without a score, scored 0.0 and retried
C26_WitnessMissing ==
    \E n \in Verdicts :
        /\ "score" \notin DOMAIN EventAt("evaluated", n).reply.v.v
        /\ ScoreAt(n) = 0
        /\ EventsAt("generate", n + 1) # {}

-----------------------------------------------------------------------------
DistinctIds(layout) ==
    \A i, j \in 1..Len(layout.image_slots) :
        i # j => layout.image_slots[i].id # layout.image_slots[j].id

\* the layouts _parse_layout has produced for the result
ParsedLayouts ==
    IF ResultBuilt
    THEN {result[k] : k \in DOMAIN result \cap {"layout", "thai_layout"}}
    ELSE {}

\* C28: in every layout that _parse_layout produced, the ids of the image
\* slots are pairwise distinct.
C28_SlotIdsDistinct == \A layout \in ParsedLayouts : DistinctIds(layout)

-----------------------------------------------------------------------------
\* the translator returned translation_success = true
TranslationSucceeded ==
    \E i \in Events("translated") :
        ~log[i].out.raised /\ log[i].out.value.translation_success

\* C29: a returned result has thai_content exactly when it has thai_layout,
\* and has them only when translation was requested and the translator
\* reported success.
C29_ThaiFieldsTogether ==
    pc = "returned" =>
        /\ "thai_content" \in DOMAIN result <=> "thai_layout" \in DOMAIN result
        /\ "thai_content" \in DOMAIN result =>
               include_thai_translation /\ TranslationSucceeded

-----------------------------------------------------------------------------
(* Termination. Every step of the loop is a call that returns or raises, so *)
(* a run that can take a step eventually takes one.                         *)
FairSpec == Init /\ [][Next]_vars /\ WF_vars(Next)

Ended == pc \in {"returned", "error"}

\* the last draft was scored at or above the threshold
LastAccepted == ScoredAt(iteration) /\ MeetsThreshold(ScoreAt(iteration))

\* the last draft was scored low and no iteration was left
LastExhausted ==
    /\ ScoredAt(iteration) /\ ~MeetsThreshold(ScoreAt(iteration))
    /\ ~MoreIterations(iteration)

RunAccepted == pc = "returned" /\ result # Unbound /\ LastAccepted

RunExhausted == pc = "returned" /\ result # Unbound /\ LastExhausted

RunError == pc = "error" /\ result = Unbound /\ error # NoError

\* C25: every run ends, and it ends as exactly one of Accepted (a result),
\* Exhausted (a result) or Error (no result); a result exists only after the
\* last draft was accepted or the iterations were exhausted.
C25_Terminates ==
    /\ <>Ended
    /\ [](Ended => \/ (RunAccepted /\ ~RunExhausted /\ ~RunError)
                   \/ (RunExhausted /\ ~RunAccepted /\ ~RunError)
                   \/ (RunError /\ ~RunAccepted /\ ~RunExhausted))
    /\ [](result # Unbound => LastAccepted \/ LastExhausted)

C25_Witness == RunExhausted /\ Cardinality(Events("generate")) = MAX_QUALITY_ITERATIONS

C25_WitnessAccepted == RunAccepted /\ iteration = 2

C25_WitnessError == RunError /\ iteration = MAX_QUALITY_ITERATIONS

-----------------------------------------------------------------------------
\* C27: a request's non-empty url_instructions list is the url_instructions
\* of the GenerationContext built from it, which is the context every
\* generation call of the request is made with.
C27_UrlInstructionsCarried ==
    (ContextBuilt /\ Truthy(GetAttr(request, "url_instructions").value)) =>
        context.url_instructions = GetAttr(request, "url_instructions").value

-----------------------------------------------------------------------------
(* The loop under any configured MAX_QUALITY_ITERATIONS *)

MaxConfigured == 2

\* variant: the locals are preset, so a loop that never ran returns an empty draft
LoopSkippedReturnsEmpty ==
    /\ pc = "start"
    /\ UNCHANGED outside_loop
    /\ ~MoreIterations(iteration)
    /\ pc' = "returned"
    /\ result' = [content |-> JStr(""),
                  layout |-> [sections |-> <<>>, image_slots |-> <<>>],
                  quality_score |-> 0,
                  iterations |-> iteration,
                  source_usage_details |-> JList(<<>>)]
    /\ UNCHANGED <<selected_model, include_thai_translation, context, iteration, feedback,
                   article_result, content, layout_data, quality_feedback, error, log>>

\* the while condition is false at the first test: building final_result reads
\* content, which was never assigned (UnboundLocalError)
LoopSkipped ==
    /\ pc = "start"
    /\ UNCHANGED outside_loop
    /\ ~MoreIterations(iteration)
    /\ pc' = "error"
    /\ error' = Unhandled("UnboundLocalError", "content")
    /\ UNCHANGED <<selected_model, include_thai_translation, context, iteration, feedback,
                   article_result, content, layout_data, quality_feedback, result, log>>

ConfigInit ==
    /\ pc = "start"
    /\ selected_model \in Models
    /\ include_thai_translation \in BOOLEAN
    /\ context \in Contexts
    /\ iteration = 0
    /\ feedback = JNull
    /\ article_result = Unbound
    /\ content = Unbound
    /\ layout_data = Unbound
    /\ quality_feedback = Unbound
    /\ result = Unbound
    /\ error = NoError
    /\ log = <<>>
    /\ request = Unbound
    /\ providers = Unbound
    /\ urls_to_process = <<>>
    /\ kw = Unbound
    /\ settings \in {[Settings EXCEPT !.MAX_QUALITY_ITERATIONS = m] : m \in 0..MaxConfigured}
    /\ parked = Unbound

ConfigNext ==
    \/ LoopSkipped
    \/ Start
    \/ GenerationRaises
    \/ GenerationEmpty
    \/ GenerationScored
    \/ EvaluationRaises
    \/ Accept
    \/ Retry
    \/ Exhaust
    \/ Translated

ConfigSpec == ConfigInit /\ [][ConfigNext]_vars

C30_WitnessSkipped ==
    /\ settings.MAX_QUALITY_ITERATIONS = 0
    /\ pc = "error"
    /\ result = Unbound

-----------------------------------------------------------------------------
(* Two requests whose quality loops run concurrently. The variables of the  *)
(* loop are the locals of the request that is running; parked holds the     *)
(* locals of the other request while it is suspended. The services are      *)
(* module-level objects that hold a provider client and nothing else;       *)
(* settings is read by both loops and written by none.                      *)

\* the locals and the history of a loop instance that has not started
NewLoop(model, thai, ctx) ==
    [pc |-> "start", selected_model |-> model, include_thai_translation |-> thai,
     context |-> ctx, iteration |-> 0, feedback |-> JNull, article_result |-> Unbound,
     content |-> Unbound, layout_data |-> Unbound, quality_feedback |-> Unbound,
     result |-> Unbound, error |-> NoError, log |-> <<>>]

\* the locals and the history of the instance that is running
RunningLoop ==
    [pc |-> pc, selected_model |-> selected_model,
     include_thai_translation |-> include_thai_translation,
     context |-> context, iteration |-> iteration, feedback |-> feedback,
     article_result |-> article_result, content |-> content, layout_data |-> layout_data,
     quality_feedback |-> quality_feedback, result |-> result, error |-> error, log |-> log]

\* the context of the second request
OtherContexts == {[topic_category |-> "Finance", seo_keywords |-> <<>>]}

\* the replies the providers give while two requests are served
ConcurrentReplies ==
    {NoCall, Fail, Raw("Plain markdown reply"),
     Json(JObj([content |-> JStr(""), layout |-> GoodLayout])),
     Json(JObj([content |-> JStr(DraftText(1)), layout |-> GoodLayout,
                source_usage_details |-> SourceUsage])),
     Json(JObj([score |-> JNum(849), feedback |-> JStr("Almost there."),
                suggestions |-> JList(<<>>)])),
     Json(JObj([score |-> JNum(500), feedback |-> JStr("Needs more depth."),
                suggestions |-> JList(<<JStr("Add data"), JStr("Shorten the intro")>>)])),
     Json(JObj([score |-> JNum(850), feedback |-> JStr("Good."),
                suggestions |-> JList(<<JStr("Polish")>>)])),
     Json(JObj([thai_content |-> JStr("Thai draft"), layout |-> ThaiLayout]))}

FromConcurrentReplies ==
    \A i \in LogIdx : "reply" \in DOMAIN log[i] => log[i].reply \in ConcurrentReplies

\* variant: the iteration counter is one module-level counter of both loops
SwitchSharesIteration ==
    /\ parked.pc \notin {"returned", "error"}
    /\ parked' = RunningLoop
    /\ pc' = parked.pc
    /\ selected_model' = parked.selected_model
    /\ include_thai_translation' = parked.include_thai_translation
    /\ context' = parked.context
    /\ iteration' = iteration
    /\ feedback' = parked.feedback
    /\ article_result' = parked.article_result
    /\ content' = parked.content
    /\ layout_data' = parked.layout_data
    /\ quality_feedback' = parked.quality_feedback
    /\ result' = parked.result
    /\ error' = parked.error
    /\ log' = parked.log
    /\ UNCHANGED <<request, providers, urls_to_process, kw, settings>>

\* the running request is suspended at a call, or has ended, and the other
\* request goes on: each coroutine has its own locals
Switch ==
    /\ parked.pc \notin {"returned", "error"}
    /\ parked' = RunningLoop
    /\ pc' = parked.pc
    /\ selected_model' = parked.selected_model
    /\ include_thai_translation' = parked.include_thai_translation
    /\ context' = parked.context
    /\ iteration' = parked.iteration
    /\ feedback' = parked.feedback
    /\ article_result' = parked.article_result
    /\ content' = parked.content
    /\ layout_data' = parked.layout_data
    /\ quality_feedback' = parked.quality_feedback
    /\ result' = parked.result
    /\ error' = parked.error
    /\ log' = parked.log
    /\ UNCHANGED <<request, providers, urls_to_process, kw, settings>>

ConcurrentInit ==
    /\ pc = "start"
    /\ selected_model \in Models
    /\ include_thai_translation \in BOOLEAN
    /\ context \in Contexts
    /\ iteration = 0
    /\ feedback = JNull
    /\ article_result = Unbound
    /\ content = Unbound
    /\ layout_data = Unbound
    /\ quality_feedback = Unbound
    /\ result = Unbound
    /\ error = NoError
    /\ log = <<>>
    /\ request = Unbound
    /\ providers = Unbound
    /\ urls_to_process = <<>>
    /\ kw = Unbound
    /\ settings = Settings
    /\ parked \in {NewLoop(m, t, c) : m \in Models, t \in BOOLEAN, c \in OtherContexts}

ConcurrentNext ==
    \/ Switch
    \/ Start
    \/ GenerationRaises /\ FromConcurrentReplies'
    \/ GenerationEmpty /\ FromConcurrentReplies'
    \/ GenerationScored /\ FromConcurrentReplies'
    \/ EvaluationRaises /\ FromConcurrentReplies'
    \/ Accept /\ FromConcurrentReplies'
    \/ Retry /\ FromConcurrentReplies'
    \/ Exhaust /\ FromConcurrentReplies'
    \/ Translated /\ FromConcurrentReplies'

ConcurrentSpec == ConcurrentInit /\ [][ConcurrentNext]_vars


\* the generation calls of the running request, in the order they were made
OwnGenerateCalls == [k \in 1..Cardinality(Events("generate")) |-> EventAt("generate", k)]

\* the feedback the running request's own verdicts lead to for iteration k
OwnFeedback(k) ==
    IF k = 1 THEN JNull
    ELSE NextFeedback(EventAt("generate", k - 1).feedback,
                      EventAt("evaluated", k - 1).out.value)

\* what the running request's last call of one kind that returned has returned
OwnLastReturn(kind) ==
    LET returned == {i \in Events(kind) : ~log[i].out.raised}
    IN log[CHOOSE i \in returned : \A j \in returned : j <= i].out.value

\* C23: whatever the interleaving, the counter, the feedback, the draft, the
\* score and the result of a request are its own: its iteration counts its
\* own generation calls, every call it makes is built from its own context,
\* its own backend and the replies to its own earlier calls, and its result
\* is built from the replies to its own last iteration.
C23_LoopsPrivate ==
    /\ iteration = Cardinality(Events("generate"))
    /\ \A i \in Events("generate") : EventsAt("generate", log[i].iteration) = {i}
    /\ \A k \in 1..iteration :
           /\ EventsAt("generate", k) # {}
           /\ OwnGenerateCalls[k].backend = BackendOf(selected_model)
           /\ OwnGenerateCalls[k].feedback = OwnFeedback(k)
           /\ OwnGenerateCalls[k].prompt_parts =
                  BuildUserPrompt(selected_model, context, OwnFeedback(k))
    /\ iteration >= 1 => feedback = OwnFeedback(iteration)
    /\ \A i \in Events("evaluate") :
           /\ log[i].iteration <= iteration
           /\ log[i].article_content =
                  ExtractContent(selected_model, EventAt("generated", log[i].iteration).out.value)
           /\ log[i].quality_context = QualityContext(context)
    /\ article_result # Unbound => article_result = OwnLastReturn("generated")
    /\ quality_feedback # Unbound => quality_feedback = OwnLastReturn("evaluated")
    /\ result # Unbound =>
           /\ result["iterations"] = iteration
           /\ result["content"] =
                  ExtractContent(selected_model, EventAt("generated", iteration).out.value)
           /\ result["source_usage_details"] = SourceUsageAt(iteration)
           /\ result["quality_score"] = ScoreAt(iteration)
           /\ "thai_content" \in DOMAIN result =>
                  \E i \in Events("translated") :
                      result["thai_content"] = log[i].out.value.markdown_content

\* both requests are under way, at different iterations, one of them resumed
\* after the other had made calls
C23_Witness ==
    /\ pc = "scoring" /\ iteration = 2
    /\ parked.pc = "generating" /\ parked.iteration = 3
    /\ parked.context # context
    /\ parked.feedback # feedback
    /\ Len(parked.log) > Len(log)

\* both requests have returned, with results of different iterations
C23_WitnessBothReturned ==
    /\ pc = "returned" /\ parked.pc = "returned"
    /\ result["iterations"] = 1 /\ parked.result["iterations"] = 3
    /\ result["quality_score"] # parked.result["quality_score"]

=============================================================================
